---- MODULE Spec2Model ----
(***************************************************************************)
(* A model of json-models' TypedModel (src/TypedModel.js and src/util.js,  *)
(* kept here as src/unnamed/part_000): model classes declared with static  *)
(* props, construction of instances from raw data, setValues, asObject     *)
(* and getSchema.                                                          *)
(*                                                                         *)
(* JavaScript values are tagged records (field k is the tag), objects are  *)
(* functions from property names to values, and ordered objects whose      *)
(* order the code iterates (props, schema.properties) are sequences of     *)
(* <<name, value>> pairs.  A computation that may throw returns a record   *)
(* [ok, v, err, traceback, log]; log lists the paths at which a default    *)
(* producer was invoked.                                                   *)
(***************************************************************************)
EXTENDS Integers, Sequences, FiniteSets, TLC

VARIABLES
  decl,      \* the declared model classes: class name -> declaration
  formats,   \* TypedModel.formats.formats: format name -> converter pair
  instance,  \* the model instance the caller holds (NoInstance before any)
  last       \* what the last operation was given and what it returned

vars == <<decl, formats, instance, last>>

(***************************************************************************)
(* JavaScript values                                                       *)
(***************************************************************************)
Undef == [k |-> "undefined"]
Null == [k |-> "null"]
Bool(b) == [k |-> "boolean", b |-> b]
Str(s) == [k |-> "string", s |-> s]
Num(n) == [k |-> "number", n |-> n]
Arr(a) == [k |-> "array", a |-> a]
Obj(f) == [k |-> "object", f |-> f]
Inst(c, f) == [k |-> "instance", cls |-> c, f |-> f]
DateOf(v) == [k |-> "date", of |-> v]
\* A date is known by the ISO form of its instant, or is the Invalid Date.
InvalidDate == "Invalid Date"
\* The instants the strings of the model denote.
Instants == { "2020-11-10T00:00:00.000Z", "2020-06-10T12:30:00.000Z" }

\* The days the strings of the model denote: a date-only string is the
\* midnight of that day, UTC.
Days == { "2020-11-10", "2020-06-10" }

\* The instant n milliseconds after the epoch; the numbers of the model are
\* below a thousand.
EpochIso(n) ==
  "1970-01-01T00:00:00."
    \o (IF n < 10 THEN "00" ELSE IF n < 100 THEN "0" ELSE "") \o ToString(n) \o "Z"

\* An instance of the CustomModel of tests/util.spec.js 498-506
Custom(v) == [k |-> "custom", value |-> v]
NoInstance == [k |-> "none", cls |-> "", f |-> <<>>]

EmptyFields == [n \in {} |-> Undef]
EmptyObj == Obj(EmptyFields)

\* ToBoolean(v) is false
Falsy(v) == v \in {Undef, Null, Bool(FALSE), Num(0), Str("")}

\* f overlaid by g: { ...f, ...g }
Merge(f, g) ==
  [n \in (DOMAIN f) \cup (DOMAIN g) |-> IF n \in DOMAIN g THEN g[n] ELSE f[n]]

\* The outcome of a computation: a value, or an exception on its way up.
Ok(v, log) == [ok |-> TRUE, v |-> v, err |-> "", traceback |-> "", log |-> log]
Throw(err, tb, log) ==
  [ok |-> FALSE, v |-> Undef, err |-> err, traceback |-> tb, log |-> log]

(***************************************************************************)
(* Property schemas.  type is one of the JSONSchema type names, "model"    *)
(* for a model class (the class is cls), or TypeAbsent.  default and items *)
(* are sequences of length 0 (absent) or 1.                                *)
(***************************************************************************)
TypeAbsent == "undefined"

Schema ==
  [type |-> TypeAbsent, cls |-> "", ref |-> "", default |-> <<>>,
   readOnly |-> FALSE, format |-> "", items |-> <<>>,
   hasProperties |-> FALSE, properties |-> <<>>,
   additionalProperties |-> Undef]

T(type) == [Schema EXCEPT !.type = type]
Model(c) == [Schema EXCEPT !.type = "model", !.cls = c]
Ref(r) == [Schema EXCEPT !.ref = r]
Default(s, v) == [s EXCEPT !.default = <<[fn |-> FALSE, v |-> v, id |-> ""]>>]
Producer(s, id) == [s EXCEPT !.default = <<[fn |-> TRUE, v |-> Undef, id |-> id]>>]
ReadOnly(s) == [s EXCEPT !.readOnly = TRUE]
Format(s, f) == [s EXCEPT !.format = f]
ArrayOf(s) == [Schema EXCEPT !.type = "array", !.items = <<s>>]
ObjectOf(props) ==
  [Schema EXCEPT !.type = "object", !.hasProperties = TRUE, !.properties = props]

\* The names of an ordered object.
Names(props) == {props[i][1] : i \in 1..Len(props)}

\* The value an ordered object holds for a name it has.
Lookup(props, n) == props[CHOOSE i \in 1..Len(props) : props[i][1] = n][2]

(***************************************************************************)
(* Class declarations.  A class has a parent (TypedModel for a root), may  *)
(* declare static props (an ordered object whose values are schemas, or    *)
(* undefined to remove an inherited property), may declare a static        *)
(* schema (overrides of the derived document), and may define getters.     *)
(***************************************************************************)
Class(parent, hasProps, props, hasSchema, schema, getters) ==
  [parent |-> parent, hasProps |-> hasProps, props |-> props,
   hasSchema |-> hasSchema, schema |-> schema, getters |-> getters]

NoOverrides == [n \in {} |-> Undef]

UserProps ==
  << <<"name", Default(T("string"), Str("John"))>>,
     <<"surname", Default(T("string"), Str("Doe"))>>,
     <<"fullName", ReadOnly(T("string"))>> >>

OrderProps ==
  << <<"id", Default(T("number"), Num(1))>>,
     <<"user", Model("User")>> >>

OrderSchema ==
  [n \in {"description", "additionalProperties"} |->
     IF n = "description" THEN Str("Example nested model.") ELSE Bool(TRUE)]

TableProps ==
  << <<"number", T("number")>>,
     <<"people", ArrayOf(Model("User"))>> >>

RoleProps ==
  << <<"name", T("string")>>,
     <<"roles", ArrayOf(Ref("#"))>> >>

NodeProps ==
  << <<"value", T("number")>>,
     <<"next", Ref("#")>> >>

BoxProps ==
  << <<"nested", ObjectOf(<< <<"key", T("string")>>,
                             <<"secret", ReadOnly(T("string"))>>,
                             <<"user", Model("User")>>,
                             <<"self", Ref("#")>> >>)>>,
     <<"theAnswer", Producer(T("number"), "answer")>>,
     <<"tags", Default(ArrayOf(T("string")), Arr(<<Str("new")>>))>>,
     <<"labels", ReadOnly(ArrayOf(T("string")))>> >>

AnySchema == [n \in {"additionalProperties"} |-> Bool(TRUE)]

\* The model of the error trace test (tests/util.spec.js 559-572), whose
\* default of dynamic throws; the same two properties as a model class of
\* their own; and a class that holds such models directly, in an array and
\* in an inline object.
FailingDeclarations ==
  [c \in {"Trace", "Fragile", "Holder"} |->
     CASE c = "Trace" ->
            Class("TypedModel", TRUE,
                  << <<"items",
                       ArrayOf(ObjectOf(<< <<"fixed", T("number")>>,
                                           <<"dynamic", Producer(T("number"), "fail")>> >>))>> >>,
                  FALSE, NoOverrides, {})
       [] c = "Fragile" ->
            Class("TypedModel", TRUE,
                  << <<"fixed", T("number")>>,
                     <<"dynamic", Producer(T("number"), "fail")>> >>,
                  FALSE, NoOverrides, {})
       [] c = "Holder" ->
            Class("TypedModel", TRUE,
                  << <<"part", Model("Fragile")>>,
                     <<"parts", ArrayOf(Model("Fragile"))>>,
                     <<"nested", ObjectOf(<< <<"part", Model("Fragile")>> >>)>> >>,
                  FALSE, NoOverrides, {})]

\* The models of the format tests (tests/util.spec.js 476-481, 512-516 and
\* 529-533), a model whose format is named as a member of every object, and
\* the model of the coercion test (872-876).
FormatDeclarations ==
  [c \in {"Stamped", "Custom", "Missing", "Inherited", "Coerced"} |->
     CASE c = "Stamped" ->
            Class("TypedModel", TRUE,
                  << <<"createdAt", Format(T("string"), "date-time")>>,
                     <<"validUntil", Format(T("string"), "date")>> >>,
                  FALSE, NoOverrides, {})
       [] c = "Custom" ->
            Class("TypedModel", TRUE,
                  << <<"custom", Format(T("string"), "custom")>> >>,
                  FALSE, NoOverrides, {})
       [] c = "Missing" ->
            Class("TypedModel", TRUE,
                  << <<"missingFormat", Format(T("string"), "missing")>> >>,
                  FALSE, NoOverrides, {})
       [] c = "Inherited" ->
            Class("TypedModel", TRUE,
                  << <<"kind", Format(T("string"), "constructor")>> >>,
                  FALSE, NoOverrides, {})
       [] c = "Coerced" ->
            Class("TypedModel", TRUE, << <<"theAnswer", T("string")>> >>,
                  FALSE, NoOverrides, {})]

\* The classes of the tests (tests/util.spec.js 168-206, 626-629, 782-787)
\* and of the README, with Node and Box covering a direct self-reference,
\* an inline object schema, a default producer and a read-only array.
Declarations ==
  [c \in {"User", "Order", "Table", "Role", "Node", "Box", "Any", "AnyNested",
           "Empty"} |->
     CASE c = "User" -> Class("TypedModel", TRUE, UserProps, FALSE, NoOverrides, {"fullName"})
       [] c = "Order" -> Class("TypedModel", TRUE, OrderProps, TRUE, OrderSchema, {})
       [] c = "Table" -> Class("TypedModel", TRUE, TableProps, FALSE, NoOverrides, {})
       [] c = "Role" -> Class("TypedModel", TRUE, RoleProps, FALSE, NoOverrides, {})
       [] c = "Node" -> Class("TypedModel", TRUE, NodeProps, FALSE, NoOverrides, {})
       [] c = "Box" -> Class("TypedModel", TRUE, BoxProps, FALSE, NoOverrides, {})
       [] c = "Any" -> Class("TypedModel", FALSE, <<>>, TRUE, AnySchema, {})
       [] c = "AnyNested" ->
            Class("TypedModel", TRUE, << <<"data", Model("Any")>> >>,
                  FALSE, NoOverrides, {})
       [] c = "Empty" -> Class("TypedModel", FALSE, <<>>, FALSE, NoOverrides, {})]

(***************************************************************************)
(* Static lookups walk the prototype chain of the class.                   *)
(***************************************************************************)
RECURSIVE StaticProps(_, _)
\* ModelCls.props: the nearest declaration of props on the chain, or
\* nothing (undefined, which spreads to no entries).
StaticProps(d, c) ==
  IF c = "TypedModel" THEN <<>>
  ELSE IF d[c].hasProps THEN d[c].props
  ELSE StaticProps(d, d[c].parent)

RECURSIVE StaticSchema(_, _)
\* ModelCls.schema || {}
StaticSchema(d, c) ==
  IF c = "TypedModel" THEN NoOverrides
  ELSE IF d[c].hasSchema THEN d[c].schema
  ELSE StaticSchema(d, d[c].parent)

RECURSIVE HasGetter(_, _, _)
\* Whether the class or an ancestor defines a getter of that name.
HasGetter(d, c, n) ==
  IF c = "TypedModel" THEN FALSE
  ELSE n \in d[c].getters \/ HasGetter(d, d[c].parent, n)

RECURSIVE SpreadFrom(_, _, _)
SpreadFrom(a, b, i) ==
  IF i > Len(b) THEN a
  ELSE LET n == b[i][1]
           next == IF n \in Names(a)
                   THEN [j \in 1..Len(a) |-> IF a[j][1] = n THEN b[i] ELSE a[j]]
                   ELSE Append(a, b[i])
       IN SpreadFrom(next, b, i + 1)

\* { ...a, ...b } of ordered objects: a name of a keeps its place and takes
\* b's value, a new name is appended.
Spread(a, b) == SpreadFrom(a, b, 1)

RECURSIVE BaseClasses(_, _)
\* The first loop of collectBaseProps: the parent first, the root last.
BaseClasses(d, c) ==
  IF d[c].parent = "TypedModel" THEN <<>>
  ELSE <<d[c].parent>> \o BaseClasses(d, d[c].parent)

RECURSIVE CollectFrom(_, _, _, _)
CollectFrom(d, baseClasses, i, props) ==
  IF i < 1 THEN props
  ELSE CollectFrom(d, baseClasses, i - 1,
                   Spread(props, StaticProps(d, baseClasses[i])))

collectBaseProps(d, c) ==
  LET baseClasses == BaseClasses(d, c)
  IN CollectFrom(d, baseClasses, Len(baseClasses), <<>>)

\* A mapper that keeps every entry.
KeepUndefined(props) == props

\* util.mapObject with the mapper of allProps: entries whose value is
\* undefined are dropped.
FilterUndefined(props) == SelectSeq(props, LAMBDA e : e[2] # Undef)

allProps(d, c) ==
  FilterUndefined(Spread(collectBaseProps(d, c), StaticProps(d, c)))

(***************************************************************************)
(* getSchema                                                               *)
(***************************************************************************)
\* isModelClass(schema.type): cls.prototype instanceof TypedModel.  Reading
\* .prototype of an absent type throws a TypeError; a type name is a string
\* and has no prototype, which is not an instance of anything.
IsModelClass(d, schema) ==
  IF schema.type = TypeAbsent THEN "TypeError"
  ELSE IF schema.type = "model" /\ schema.cls \in DOMAIN d THEN "true"
  ELSE "false"

SchemaDoc(doc) == [k |-> "schemaDoc", doc |-> doc]
Properties(entries) == [k |-> "properties", entries |-> entries]

\* A document whose base fields include an empty required list.
BaseDocumentRequiring(d, c) ==
  Merge([n \in {"$schema", "$id", "type", "additionalProperties", "required"} |->
           CASE n = "$schema" -> Str("http://json-schema.org/schema#")
             [] n = "$id" -> Str(c)
             [] n = "type" -> Str("object")
             [] n = "additionalProperties" -> Bool(FALSE)
             [] n = "required" -> Arr(<<>>)],
        StaticSchema(d, c))

\* The literal getSchema starts from, the static schema spread last.
BaseDocument(d, c) ==
  Merge([n \in {"$schema", "$id", "type", "additionalProperties"} |->
           CASE n = "$schema" -> Str("http://json-schema.org/schema#")
             [] n = "$id" -> Str(c)
             [] n = "type" -> Str("object")
             [] n = "additionalProperties" -> Bool(FALSE)],
        StaticSchema(d, c))

\* The rest of a step that adds an entry to an ordered object: r is the
\* outcome of computing the entry's value, acc the object so far.
PutEntry(acc, name, r) ==
  IF r.ok THEN Ok(Append(acc.v, <<name, r.v>>), r.log) ELSE r

\* A derived document as the value of a property.
AsSchemaDoc(sub) == IF sub.ok THEN Ok(SchemaDoc(sub.v), <<>>) ELSE sub

\* schema.properties = ... of getSchema
WithProperties(schema, mapped) ==
  IF mapped.ok
  THEN Ok(Merge(schema, [n \in {"properties"} |-> Properties(mapped.v)]), <<>>)
  ELSE mapped

RECURSIVE GetSchema(_, _, _, _)
RECURSIVE MapProps(_, _, _, _, _, _)
\* The mapper getSchema gives to mapObject.  stack holds the classes whose
\* getSchema() is running: a nested getSchema() of one of them never
\* returns (the engine ends it with a RangeError).
MapEntry(d, value, leaveModels, stack) ==
  IF IsModelClass(d, value) = "TypeError" THEN Throw("TypeError", "", <<>>)
  ELSE IF IsModelClass(d, value) = "true" /\ ~leaveModels
  THEN IF value.cls \in stack THEN Throw("RangeError", "", <<>>)
       ELSE AsSchemaDoc(GetSchema(d, value.cls, FALSE, stack))
  ELSE Ok(value, <<>>)

\* The mapObject call of getSchema, entry i onwards; an exception ends it.
MapProps(d, props, i, leaveModels, stack, acc) ==
  IF ~acc.ok \/ i > Len(props) THEN acc
  ELSE MapProps(d, props, i + 1, leaveModels, stack,
                PutEntry(acc, props[i][1],
                         MapEntry(d, props[i][2], leaveModels, stack)))

\* ModelCls.getSchema({ leaveModels }): the document as a function from its
\* keys to their values.
GetSchema(d, c, leaveModels, stack) ==
  IF allProps(d, c) = <<>> THEN Ok(BaseDocument(d, c), <<>>)
  ELSE WithProperties(BaseDocument(d, c),
                      MapProps(d, allProps(d, c), 1, leaveModels, stack \cup {c},
                               Ok(<<>>, <<>>)))

\* !schema.properties of a derived document
LacksProperties(doc) == "properties" \notin DOMAIN doc

\* schema.additionalProperties of a derived document
AdditionalProperties(doc) ==
  IF "additionalProperties" \in DOMAIN doc THEN doc["additionalProperties"] ELSE Undef

(***************************************************************************)
(* Reading properties                                                      *)
(***************************************************************************)
RECURSIVE StringOf(_)
RECURSIVE Join(_, _)
\* Array.prototype.join(','): undefined and null elements give ''.
Join(a, i) ==
  IF i > Len(a) THEN ""
  ELSE (IF a[i] \in {Undef, Null} THEN "" ELSE StringOf(a[i]))
       \o (IF i < Len(a) THEN "," ELSE "") \o Join(a, i + 1)

\* String(v), as a template literal and toString() give it.
StringOf(v) ==
  CASE v.k = "undefined" -> "undefined"
    [] v.k = "null" -> "null"
    [] v.k = "boolean" -> IF v.b THEN "true" ELSE "false"
    [] v.k = "string" -> v.s
    [] v.k = "number" -> ToString(v.n)
    [] v.k = "array" -> Join(v.a, 1)
    [] v.k = "date" ->
         IF v.of = InvalidDate THEN InvalidDate
         ELSE IF v.of \in Instants THEN "Date(" \o v.of \o ")"
         ELSE "Date(" \o EpochIso(0) \o ")"
    [] v.k = "custom" /\ v.value.k = "string" -> v.value.s
    [] OTHER -> "[object Object]"

\* values[name] needs an object to read from: null and undefined throw.
CanRead(v) == v \notin {Undef, Null}

RECURSIVE Read(_, _, _)
\* get fullName() { return `${this.name} ${this.surname}` }
Getter(d, this, n) ==
  Str(StringOf(Read(d, this, "name")) \o " " \o StringOf(Read(d, this, "surname")))

\* v[n] with the getters of the class left out of the lookup
ReadOwnOnly(d, v, n) ==
  IF v.k \in {"object", "instance"} /\ n \in DOMAIN v.f THEN v.f[n] ELSE Undef

\* v[n] of a value that can be read: an own property, else a getter of the
\* instance's class, else undefined.  The names of the model are no index
\* or built-in property of an array, a string or a number.
Read(d, v, n) ==
  CASE v.k = "object" -> IF n \in DOMAIN v.f THEN v.f[n] ELSE Undef
    [] v.k = "instance" ->
         IF n \in DOMAIN v.f THEN v.f[n]
         ELSE IF HasGetter(d, v.cls, n) THEN Getter(d, v, n)
         ELSE Undef
    [] OTHER -> Undef

\* Object.prototype.hasOwnProperty.call(v, n) of a value that can be read
HasOwn(v, n) == v.k \in {"object", "instance"} /\ n \in DOMAIN v.f

\* Object.entries(v) / { ...v } of a value that can be read: the own
\* properties.  A number and a boolean have none; an array has its indices.
OwnEntries(v) ==
  CASE v.k \in {"object", "instance"} -> v.f
    [] v.k = "array" -> [n \in {ToString(i - 1) : i \in 1..Len(v.a)} |->
                           v.a[CHOOSE i \in 1..Len(v.a) : ToString(i - 1) = n]]
    [] OTHER -> EmptyFields

(***************************************************************************)
(* FormatManager and the converters registered at load time.  A pair of    *)
(* converters is known by an id: "date" and "date-time" are the built-in   *)
(* pairs, "custom" the pair of tests/util.spec.js 507-510, and "inherited" *)
(* a member of Object.prototype, which has neither load nor dump.          *)
(***************************************************************************)
BuiltinFormats == [n \in {"date", "date-time"} |-> n]

\* The names every plain object inherits from Object.prototype: formats[name]
\* of the registry object {} finds them without any registration.
ObjectPrototype ==
  { "constructor", "toString", "valueOf", "hasOwnProperty", "isPrototypeOf",
    "propertyIsEnumerable", "toLocaleString" }

\* register that keeps the pair a name already has
registerOnce(fmts, name, pair) ==
  [n \in (DOMAIN fmts) \cup {name} |-> IF n \in DOMAIN fmts THEN fmts[n] ELSE pair]

\* FormatManager.register(name, pair)
register(fmts, name, pair) ==
  [n \in (DOMAIN fmts) \cup {name} |-> IF n = name THEN pair ELSE fmts[n]]

\* FormatManager.find(name): a sequence of length 0 (undefined) or 1.
Find(fmts, name) ==
  IF name = "" THEN <<>>
  ELSE IF name \in DOMAIN fmts THEN <<fmts[name]>>
  ELSE IF name \in ObjectPrototype THEN <<"inherited">>
  ELSE <<>>

\* Date.parse(s); the string a date prints as (see StringOf) has whole
\* seconds only.
ParseDate(s) ==
  IF s \in Instants THEN s
  ELSE IF s \in Days THEN s \o "T00:00:00.000Z"
  ELSE IF \E i \in Instants : s = "Date(" \o i \o ")"
  THEN CHOOSE i \in Instants : s = "Date(" \o i \o ")"
  ELSE IF s = "Date(" \o EpochIso(0) \o ")" THEN EpochIso(0)
  ELSE InvalidDate

RECURSIVE NewDate(_)
\* new Date(v): a date is copied, a string parsed, any other primitive
\* taken as a number of milliseconds, and an object first converted to a
\* primitive by its toString (CustomModel's returns this.value, which
\* need not be a primitive).
NewDate(v) ==
  CASE v.k = "date" -> Ok(v, <<>>)
    [] v.k = "string" -> Ok(DateOf(ParseDate(v.s)), <<>>)
    [] v.k = "number" ->
         Ok(DateOf(IF v.n >= 0 /\ v.n < 1000 THEN EpochIso(v.n) ELSE InvalidDate), <<>>)
    [] v.k = "boolean" -> Ok(DateOf(EpochIso(IF v.b THEN 1 ELSE 0)), <<>>)
    [] v.k = "null" -> Ok(DateOf(EpochIso(0)), <<>>)
    [] v.k = "undefined" -> Ok(DateOf(InvalidDate), <<>>)
    [] v.k = "custom" ->
         IF v.value.k \in {"string", "number", "boolean", "null", "undefined"}
         THEN NewDate(v.value)
         ELSE Throw("TypeError", "", <<>>)
    [] OTHER -> Ok(DateOf(ParseDate(StringOf(v))), <<>>)

\* The load function of a pair:
\*   date, date-time: str => str && new Date(str)
\*   custom:          str => new CustomModel(str)
\* and a member of Object.prototype has no load to call.
Load(pair, v) ==
  CASE pair \in {"date", "date-time"} -> IF Falsy(v) THEN Ok(v, <<>>) ELSE NewDate(v)
    [] pair = "custom" -> Ok(Custom(v), <<>>)
    [] OTHER -> Throw("TypeError", "", <<>>)

\* formatter ? formatter.load(value) : value
LoadWith(formatter, value) ==
  IF formatter # <<>> THEN Load(formatter[1], value) ELSE Ok(value, <<>>)

\* FormatManager.loadValue(format, value)
LoadValue(fmts, format, value) == LoadWith(Find(fmts, format), value)

\* The outcome of loadValue as the outcome of buildValue
Loaded(r, log) == IF r.ok THEN Ok(r.v, log) ELSE Throw(r.err, "", log)

(***************************************************************************)
(* Default producers                                                       *)
(***************************************************************************)
\* schema.default(): () => 42 (tests/util.spec.js 548) and
\* () => { throw new Error("Failed") } (tests/util.spec.js 567).
CallProducer(id, name, log) ==
  IF id = "answer" THEN Ok(Num(42), Append(log, name))
  ELSE Throw("Error", "", Append(log, name))

\* The catch of buildValue: the first frame to catch stamps its name.
Stamp(r, name) ==
  IF r.ok \/ r.traceback # "" THEN r ELSE [r EXCEPT !.traceback = name]

(***************************************************************************)
(* Building: buildObject, buildValue, buildArray, the constructor and      *)
(* setValues                                                               *)
(***************************************************************************)
\* refs[schema.$ref] as the schema { type: refs[schema.$ref] }
Resolve(refs, ref) == IF ref \in DOMAIN refs THEN Model(refs[ref]) ELSE Schema

\* schema.properties of a derived document, as Object.entries lists it
PropertiesOf(doc) == IF LacksProperties(doc) THEN <<>> ELSE doc["properties"].entries

\* The rest of a reduce step that stores a built value under a name of the
\* object built so far.
PutField(acc, name, r) ==
  IF r.ok THEN Ok(Obj(Merge(acc.v.f, [n \in {name} |-> r.v])), r.log) ELSE r

\* The rest of a map step that adds a built element to the array so far.
PutItem(acc, r) ==
  IF r.ok THEN Ok(Arr(Append(acc.v.a, r.v)), r.log) ELSE r

RECURSIVE BuildValue(_, _, _, _, _, _, _)
RECURSIVE BuildProps(_, _, _, _, _, _, _, _)
RECURSIVE BuildItems(_, _, _, _, _, _, _, _)
RECURSIVE Construct(_, _, _, _, _)
RECURSIVE BuildTyped(_, _, _, _, _, _)

\* The callback of buildArray for element i.
BuildItem(d, fmts, elem, schema, x, refs, log) ==
  IF schema.items = <<>> THEN Throw("TypeError", elem, log)
  ELSE BuildValue(d, fmts, elem, schema.items[1], x, refs, log)

\* data.map of buildArray, element i onwards, left to right; an exception
\* ends it.
BuildItems(d, fmts, name, schema, data, i, refs, acc) ==
  IF ~acc.ok \/ i > Len(data) THEN acc
  ELSE BuildItems(d, fmts, name, schema, data, i + 1, refs,
                  PutItem(acc, BuildItem(d, fmts,
                                         name \o "[" \o ToString(i - 1) \o "]",
                                         schema, data[i], refs, acc.log)))

\* buildArray(name, schema, data, refs).  A value without map throws.
buildArray(d, fmts, name, schema, data, refs, log) ==
  IF data.k # "array" THEN Throw("TypeError", "", log)
  ELSE BuildItems(d, fmts, name, schema, data.a, 1, refs, Ok(Arr(<<>>), log))

\* The reducer of buildObject for one property that is not read-only.
BuildProp(d, fmts, name, propName, propSchema, values, refs, log) ==
  IF ~CanRead(values) THEN Throw("TypeError", "", log)
  ELSE BuildValue(d, fmts, name \o "." \o propName, propSchema,
                  Read(d, values, propName), refs, log)

\* A reduce of buildObject without the filter on readOnly.
BuildPropsUnfiltered(d, fmts, name, props, i, values, refs, acc) ==
  IF ~acc.ok \/ i > Len(props) THEN acc
  ELSE BuildProps(d, fmts, name, props, i + 1, values, refs,
                  PutField(acc, props[i][1],
                           BuildProp(d, fmts, name, props[i][1], props[i][2],
                                     values, refs, acc.log)))

\* The filter and reduce of buildObject, entry i onwards; an exception
\* ends it.
BuildProps(d, fmts, name, props, i, values, refs, acc) ==
  IF ~acc.ok \/ i > Len(props) THEN acc
  ELSE BuildProps(d, fmts, name, props, i + 1, values, refs,
                  IF props[i][2].readOnly THEN acc
                  ELSE PutField(acc, props[i][1],
                                BuildProp(d, fmts, name, props[i][1], props[i][2],
                                          values, refs, acc.log)))

\* buildObject(name, schema, values, refs), schema being a derived document
\* or an inline object schema: hasProps is !!schema.properties.
buildObject(d, fmts, name, hasProps, props, additional, values, refs, log) ==
  IF ~hasProps /\ additional # Bool(FALSE) THEN Ok(values, log)
  ELSE IF ~hasProps THEN Throw("TypeError", "", log)
  ELSE BuildProps(d, fmts, name, props, 1, values, refs, Ok(EmptyObj, log))

\* A default step that takes no default.
ApplyNoDefault(schema, value, name, log) == Ok(value, log)

\* if (value === undefined) value = (typeof schema.default === 'function')
\*   ? schema.default() : schema.default
ApplyDefault(schema, value, name, log) ==
  IF value # Undef \/ schema.default = <<>> THEN Ok(value, log)
  ELSE IF schema.default[1].fn THEN CallProducer(schema.default[1].id, name, log)
  ELSE Ok(schema.default[1].v, log)

\* if (!schema.type && schema.$ref) schema = { type: refs[schema.$ref] }
ResolveRef(schema, refs) ==
  IF schema.type = TypeAbsent /\ schema.ref # "" THEN Resolve(refs, schema.ref)
  ELSE schema

\* A buildValue that returns undefined for a missing value before it looks
\* at the type.
BuildValueUndefinedFirst(d, fmts, name, schema, value, refs, log) ==
  IF value = Undef /\ schema.default = <<>> THEN Ok(Undef, log)
  ELSE Stamp(BuildTyped(d, fmts, name, ResolveRef(schema, refs),
                        ApplyDefault(schema, value, name, log), refs),
             name)

\* A buildValue tail that never instantiates a model class.
BuildPlainNoModels(d, fmts, schema, value, log) ==
  IF IsModelClass(d, schema) = "TypeError" THEN Throw("TypeError", "", log)
  ELSE IF schema.type = "string" /\ schema.format # ""
  THEN Loaded(LoadValue(fmts, schema.format, value), log)
  ELSE Ok(value, log)

\* The try block of buildValue from the isModelClass test on: a model
\* class is instantiated, a formatted string loaded, anything else kept.
BuildPlain(d, fmts, schema, value, log) ==
  IF IsModelClass(d, schema) = "TypeError" THEN Throw("TypeError", "", log)
  ELSE IF IsModelClass(d, schema) = "true"
  THEN Construct(d, fmts, schema.cls, value, log)
  ELSE IF schema.type = "string" /\ schema.format # ""
  THEN Loaded(LoadValue(fmts, schema.format, value), log)
  ELSE Ok(value, log)

\* The try block of buildValue from the type dispatch on, schema being
\* resolved and defaulted the outcome of taking the default.
BuildTyped(d, fmts, name, schema, defaulted, refs) ==
  IF ~defaulted.ok THEN defaulted
  ELSE IF schema.type = "array"
  THEN IF defaulted.v = Undef THEN Ok(Arr(<<>>), defaulted.log)
       ELSE buildArray(d, fmts, name, schema, defaulted.v, refs, defaulted.log)
  ELSE IF defaulted.v = Undef THEN Ok(Undef, defaulted.log)
  ELSE IF schema.type = "object"
  THEN buildObject(d, fmts, name, schema.hasProperties, schema.properties,
                   schema.additionalProperties, defaulted.v, refs, defaulted.log)
  ELSE BuildPlain(d, fmts, schema, defaulted.v, defaulted.log)

\* buildValue(name, schema, value, refs)
BuildValue(d, fmts, name, schema, value, refs, log) ==
  Stamp(BuildTyped(d, fmts, name, ResolveRef(schema, refs),
                   ApplyDefault(schema, value, name, log), refs),
        name)

\* An assignment that replaces the instance's properties by the entries.
AssignInstead(d, this, entries, i, log) ==
  Ok([this EXCEPT !.f = [n \in Names(entries) |-> Lookup(entries, n)]], log)

\* this[name] = value for each entry of processed, in order.  Assigning to
\* a property that has only a getter throws and leaves the earlier
\* assignments in place.  The result's v is the instance after the call.
RECURSIVE AssignFrom(_, _, _, _, _)
AssignFrom(d, this, entries, i, log) ==
  IF i > Len(entries) THEN Ok(this, log)
  ELSE IF HasGetter(d, this.cls, entries[i][1])
  THEN [Throw("TypeError", "", log) EXCEPT !.v = this]
  ELSE AssignFrom(d, [this EXCEPT !.f = Merge(@, [n \in {entries[i][1]} |-> entries[i][2]])],
                  entries, i + 1, log)

\* The same for the entries of a plain object, whose order the model does
\* not keep; no class without props defines a getter.
AssignAll(d, this, f, log) ==
  IF \E n \in DOMAIN f : HasGetter(d, this.cls, n)
  THEN [Throw("TypeError", "", log) EXCEPT !.v = this]
  ELSE Ok([this EXCEPT !.f = Merge(@, f)], log)

\* An assignment that empties the instance when the reduce has thrown.
AssignOrReset(d, this, processed) ==
  IF processed.ok THEN AssignFrom(d, this, processed.v, 1, processed.log)
  ELSE [processed EXCEPT !.v = [this EXCEPT !.f = EmptyFields]]

\* Object.entries(processed).map(...) of setValues, processed being the
\* outcome of the reduce: an exception of the reduce leaves this as it was.
Assign(d, this, processed) ==
  IF processed.ok THEN AssignFrom(d, this, processed.v, 1, processed.log)
  ELSE [processed EXCEPT !.v = this]

\* The reducer of setValues for one property that passed the filter.
ProcessProp(d, fmts, propName, propSchema, values, refs, log) ==
  BuildValue(d, fmts, "$." \o propName, propSchema, Read(d, values, propName),
             refs, log)

\* The filter and reduce of setValues, entry i onwards; an exception ends
\* it.
RECURSIVE ProcessProps(_, _, _, _, _, _, _)
ProcessProps(d, fmts, props, i, values, refs, acc) ==
  IF ~acc.ok \/ i > Len(props) THEN acc
  ELSE ProcessProps(d, fmts, props, i + 1, values, refs,
                    IF HasOwn(values, props[i][1]) /\ ~props[i][2].readOnly
                    THEN PutEntry(acc, props[i][1],
                                  ProcessProp(d, fmts, props[i][1], props[i][2],
                                              values, refs, acc.log))
                    ELSE acc)

\* A setValues that copies all values whenever additional properties are
\* not forbidden, properties or not.
SetValuesWithAdditional(d, fmts, this, values, log, got) ==
  IF ~got.ok THEN [Throw(got.err, "", log) EXCEPT !.v = this]
  ELSE IF ~CanRead(values) THEN [Throw("TypeError", "", log) EXCEPT !.v = this]
  ELSE IF AdditionalProperties(got.v) # Bool(FALSE)
  THEN AssignAll(d, this, OwnEntries(values), log)
  ELSE IF LacksProperties(got.v)
  THEN [Throw("TypeError", "", log) EXCEPT !.v = this]
  ELSE Assign(d, this,
              ProcessProps(d, fmts, PropertiesOf(got.v), 1, values,
                           [r \in {"#"} |-> this.cls], Ok(<<>>, log)))

\* setValues from line 101 on, got being the outcome of getSchema.
SetValuesWith(d, fmts, this, values, log, got) ==
  IF ~got.ok THEN [Throw(got.err, "", log) EXCEPT !.v = this]
  ELSE IF LacksProperties(got.v) /\ AdditionalProperties(got.v) # Bool(FALSE)
  THEN IF ~CanRead(values) THEN [Throw("TypeError", "", log) EXCEPT !.v = this]
       ELSE AssignAll(d, this, OwnEntries(values), log)
  ELSE IF LacksProperties(got.v) \/ ~CanRead(values)
  THEN [Throw("TypeError", "", log) EXCEPT !.v = this]
  ELSE Assign(d, this,
              ProcessProps(d, fmts, PropertiesOf(got.v), 1, values,
                           [r \in {"#"} |-> this.cls], Ok(<<>>, log)))

\* this.setValues(values).  The result's v is the instance after the call,
\* also when the call throws.  this.constructor is the class unless the
\* instance has a property of its own named constructor, whose value then
\* has no getSchema to call.
setValues(d, fmts, this, values, log) ==
  IF HasOwn(this, "constructor") THEN [Throw("TypeError", "", log) EXCEPT !.v = this]
  ELSE SetValuesWith(d, fmts, this, values, log, GetSchema(d, this.cls, TRUE, {}))

\* What new leaves the caller with: the instance, or the exception alone.
Constructed(set) == IF set.ok THEN set ELSE [set EXCEPT !.v = Undef]

\* this.setValues(processedValues) of the constructor
SetProcessed(d, fmts, c, processedValues) ==
  IF ~processedValues.ok THEN processedValues
  ELSE Constructed(setValues(d, fmts, Inst(c, EmptyFields), processedValues.v,
                             processedValues.log))

\* The constructor from line 26 on, got being the outcome of getSchema.
ConstructWith(d, fmts, c, values, log, got) ==
  IF ~got.ok THEN Throw(got.err, "", log)
  ELSE SetProcessed(d, fmts, c,
                    buildObject(d, fmts, "$", ~LacksProperties(got.v),
                                PropertiesOf(got.v), AdditionalProperties(got.v),
                                values, [r \in {"#"} |-> c], log))

\* new ModelCls(values)
Construct(d, fmts, c, values, log) ==
  ConstructWith(d, fmts, c, IF Falsy(values) THEN EmptyObj ELSE values, log,
                GetSchema(d, c, TRUE, {}))

(***************************************************************************)
(* Serializing: modelAsObject                                              *)
(***************************************************************************)
\* The dump function of a pair:
\*   date:      val => val && util.formatDate(val, 'yyyy-MM-dd')
\*   date-time: val => val && val.toISOString()
\*   custom:    value => value.toString()
\* util exports no formatDate, toISOString is a method of dates only and
\* throws a RangeError for the Invalid Date, and a member of
\* Object.prototype has no dump to call.
Dump(pair, val) ==
  CASE pair = "date" -> IF Falsy(val) THEN Ok(val, <<>>) ELSE Throw("TypeError", "", <<>>)
    [] pair = "date-time" ->
         IF Falsy(val) THEN Ok(val, <<>>)
         ELSE IF val.k # "date" THEN Throw("TypeError", "", <<>>)
         ELSE IF val.of = InvalidDate THEN Throw("RangeError", "", <<>>)
         ELSE Ok(Str(val.of), <<>>)
    [] pair = "custom" ->
         Ok(IF val.k = "custom" THEN val.value ELSE Str(StringOf(val)), <<>>)
    [] OTHER -> Throw("TypeError", "", <<>>)

\* format ? format.dump(value) : (value && value.toString())
DumpString(format, value) ==
  IF format # <<>> THEN Dump(format[1], value)
  ELSE IF Falsy(value) THEN Ok(value, <<>>)
  ELSE Ok(IF value.k = "custom" THEN value.value ELSE Str(StringOf(value)), <<>>)

RECURSIVE modelAsObject(_, _, _)
RECURSIVE DumpProps(_, _, _, _, _, _)
\* The reducer of modelAsObject: processed, for the value the model holds.
DumpValue(d, fmts, propSchema, value) ==
  IF value \in {Undef, Null} THEN Ok(value, <<>>)
  ELSE IF IsModelClass(d, propSchema) = "TypeError" THEN Throw("TypeError", "", <<>>)
  ELSE IF IsModelClass(d, propSchema) = "true"
  THEN IF value.k = "instance" THEN modelAsObject(d, fmts, value)
       ELSE Throw("TypeError", "", <<>>)
  ELSE IF propSchema.type = "string" /\ value.k # "string"
  THEN DumpString(Find(fmts, propSchema.format), value)
  ELSE Ok(value, <<>>)

\* The reduce of modelAsObject, entry i onwards; an exception ends it.
DumpProps(d, fmts, model, props, i, acc) ==
  IF ~acc.ok \/ i > Len(props) THEN acc
  ELSE DumpProps(d, fmts, model, props, i + 1,
                 PutField(acc, props[i][1],
                          DumpValue(d, fmts, props[i][2],
                                    Read(d, model, props[i][1]))))

\* modelAsObject from line 216 on, got being the outcome of getSchema().
AsObjectWith(d, fmts, model, got) ==
  IF ~got.ok THEN Throw(got.err, "", <<>>)
  ELSE IF LacksProperties(got.v) /\ AdditionalProperties(got.v) # Bool(FALSE)
  THEN Ok(Obj(model.f), <<>>)
  ELSE DumpProps(d, fmts, model, allProps(d, model.cls), 1, Ok(EmptyObj, <<>>))

\* modelAsObject(model)
modelAsObject(d, fmts, model) ==
  IF HasOwn(model, "constructor") THEN Throw("TypeError", "", <<>>)
  ELSE AsObjectWith(d, fmts, model, GetSchema(d, model.cls, FALSE, {}))

(***************************************************************************)
(* Validating: TypedModel.validate of src/index.js, on top of the external *)
(* validator jsonschema                                                    *)
(***************************************************************************)
\* The result object of jsonschema.validate, with its list of errors.
ValidatorResult(errors) == [k |-> "ValidatorResult", errors |-> errors]

\* validate from the test of the error count on, got being the outcome of
\* getSchema() and errors the list the validator reports.
ValidateWith(got, errors) ==
  IF ~got.ok THEN Throw(got.err, "", <<>>)
  ELSE IF Len(errors) > 0 THEN Ok(ValidatorResult(errors), <<>>)
  ELSE Ok(Undef, <<>>)

\* ModelCls.validate(values): the validator is external, what it reports
\* for the values is an input of the model.
validate(d, c, errors) == ValidateWith(GetSchema(d, c, FALSE, {}), errors)

(***************************************************************************)
(* The raw data the operations are given                                   *)
(***************************************************************************)
\* The deepest nesting of sub-roles in the data given to Role.
MaxDepth == 2
\* The longest array of people given to Table.
MaxItems == 2

O1(n1, v1) == Obj([n \in {n1} |-> v1])
O2(n1, v1, n2, v2) == Obj([n \in {n1, n2} |-> IF n = n1 THEN v1 ELSE v2])
O3(n1, v1, n2, v2, n3, v3) ==
  Obj([n \in {n1, n2, n3} |-> IF n = n1 THEN v1 ELSE IF n = n2 THEN v2 ELSE v3])

Jack == O2("name", Str("Jack"), "surname", Str("Crack"))

RECURSIVE RoleData(_)
\* A role with a leaf and a role nested depth levels deep.
RoleData(depth) ==
  IF depth = 0 THEN O1("name", Str("Leaf"))
  ELSE O2("name", Str("Sub"),
          "roles", Arr(<<O1("name", Str("Leaf")), RoleData(depth - 1)>>))

\* The first n of John, Jack, Jill (tests/util.spec.js 287-291).
People(n) ==
  SubSeq(<<EmptyObj, Jack, O2("name", Str("Jill"), "age", Num(29))>>, 1, n)

RoleTrees == { RoleData(n) : n \in 0..MaxDepth } \cup { EmptyObj }

AnyData ==
  { EmptyObj, O2("msg", Str("hello"), "value", Num(3)), Num(5),
    O1("constructor", Str("Any")) }

\* Items with and without a value for dynamic (tests/util.spec.js 575-581),
\* and the arrays of up to n of them.
Items == { O2("fixed", Num(12), "dynamic", Num(32)), O1("fixed", Num(14)) }

ItemArrays(n) == { Arr(a) : a \in UNION { [1..m -> Items] : m \in 0..n } }

\* The data a class is constructed from.
Data(c) ==
  CASE c = "User" ->
         { Undef, EmptyObj, Jack,
           O3("name", Str("Jack"), "surname", Str("Crack"), "fullName", Str("READ_ONLY")),
           O2("firstName", Str("John"), "lastName", Str("Doe")),
           O2("name", Null, "age", Num(29)) }
    [] c = "Order" ->
         { EmptyObj, O2("id", Num(5), "user", Jack), O1("user", EmptyObj),
           O1("user", Null), O2("id", Num(5), "total", Num(9)) }
    [] c = "Table" ->
         { O1("people", Arr(People(n))) : n \in 0..MaxItems }
           \cup { EmptyObj, O1("people", Null), O2("number", Num(8), "people", Arr(<<Undef>>)) }
    [] c = "Role" -> RoleTrees
    [] c = "Node" ->
         { EmptyObj, O2("value", Num(1), "next", O1("value", Num(2))) }
    [] c = "Box" ->
         { EmptyObj,
           O1("nested", Obj([n \in {"key", "secret", "user", "self"} |->
                               CASE n = "key" -> Str("kk")
                                 [] n = "secret" -> Str("hidden")
                                 [] n = "user" -> Jack
                                 [] n = "self" -> O1("theAnswer", Num(7))])),
           O1("nested", EmptyObj),
           O1("nested", Null),
           O3("theAnswer", Num(7), "tags", Arr(<<Str("a")>>), "labels", Arr(<<Str("x")>>)) }
    [] c = "Any" -> AnyData
    [] c = "AnyNested" ->
         { EmptyObj, O1("data", O2("msg", Str("hello"), "value", Num(3))),
           O1("data", O1("constructor", Str("Any"))) }
    [] c = "Trace" -> { O1("items", a) : a \in ItemArrays(MaxItems + 1) }
    [] c = "Fragile" -> Items
    [] c = "Holder" ->
         { O1("part", i) : i \in Items }
           \cup { O1("parts", a) : a \in ItemArrays(MaxItems) }
           \cup { O1("nested", O1("part", i)) : i \in Items }
           \cup { EmptyObj }
    [] c = "Stamped" ->
         { EmptyObj,
           O1("createdAt", Str("2020-06-10T12:30:00.000Z")),
           O1("createdAt", Str("2020-11-10")),
           O1("createdAt", Str("soon")),
           O1("validUntil", Str("2020-11-10")),
           O2("createdAt", Undef, "validUntil", Null) }
    [] c = "Custom" -> { EmptyObj, O1("custom", Str("asdf")) }
    [] c = "Missing" ->
         { EmptyObj, O1("missingFormat", Str("asdf")), O1("missingFormat", Num(24)) }
    [] c = "Inherited" -> { EmptyObj, O1("kind", Str("asdf")) }
    [] c = "Coerced" ->
         { O1("theAnswer", Num(24)), O1("theAnswer", Num(0)), O1("theAnswer", Bool(FALSE)) }
    [] OTHER -> { EmptyObj }

\* The values setValues is given for an instance of a class.
Updates(c) ==
  CASE c = "User" ->
         { O1("name", Str("Jane")), O2("name", Str("Jane"), "age", Num(29)),
           O1("name", Undef), O1("fullName", Str("READ_ONLY")), EmptyObj, Undef }
    [] c = "Order" ->
         { O1("user", O1("name", Str("Jill"))), O2("id", Undef, "total", Num(9)),
           O1("user", Undef) }
    [] c = "Table" ->
         { O1("people", Undef), O1("people", Arr(People(1))), O1("number", Num(9)),
           O1("people", Str("nobody")), O2("number", Num(9), "people", Str("nobody")) }
    [] c \in {"Role", "Admin"} ->
         { O1("roles", Arr(<<RoleData(0)>>)), O1("name", Str("Root")) }
    [] c = "Box" ->
         { O1("theAnswer", Undef), O1("tags", Undef), O1("labels", Arr(<<Str("x")>>)),
           O1("nested", O2("secret", Str("hidden"), "key", Str("k2"))) }
    [] c = "Any" -> { O1("msg", Str("bye")), O1("extra", Undef) }
    [] c = "AnyNested" -> { O1("data", O1("msg", Str("bye"))) }
    [] c = "Stamped" -> { O1("createdAt", Str("2020-11-10")) }
    [] c = "Custom" -> { O1("custom", Str("qwer")) }
    [] c = "Missing" -> { O1("missingFormat", Str("qwer")) }
    [] OTHER -> { EmptyObj }

(***************************************************************************)
(* The operations                                                          *)
(***************************************************************************)
NoOp == [op |-> "none", cls |-> "", arg |-> Undef, before |-> NoInstance,
         result |-> Ok(Undef, <<>>)]

Init ==
  /\ decl = Declarations
  /\ formats = BuiltinFormats
  /\ instance = NoInstance
  /\ last = NoOp

\* instance = new ModelCls(values): a constructor that throws leaves the
\* caller with what it held.
New(c, values) ==
  /\ last' = [op |-> "new", cls |-> c, arg |-> values, before |-> NoInstance,
              result |-> Construct(decl, formats, c, values, <<>>)]
  /\ instance' = IF last'.result.ok THEN last'.result.v ELSE instance
  /\ UNCHANGED <<decl, formats>>

\* instance.setValues(values)
SetValues(values) ==
  /\ instance # NoInstance
  /\ last' = [op |-> "setValues", cls |-> instance.cls, arg |-> values,
              before |-> instance,
              result |-> setValues(decl, formats, instance, values, <<>>)]
  /\ instance' = last'.result.v
  /\ UNCHANGED <<decl, formats>>

\* instance.asObject()
AsObject ==
  /\ instance # NoInstance
  /\ last' = [op |-> "asObject", cls |-> instance.cls, arg |-> Undef,
              before |-> instance, result |-> modelAsObject(decl, formats, instance)]
  /\ UNCHANGED <<decl, formats, instance>>

Next ==
  \/ \E c \in DOMAIN decl : \E values \in Data(c) : New(c, values)
  \/ \E values \in Updates(instance.cls) : SetValues(values)
  \/ AsObject

Spec == Init /\ [][Next]_vars

(***************************************************************************)
(* Declaring classes: the inheritance of static props                      *)
(***************************************************************************)
\* The longest chain of classes declared.
MaxClasses == 3

\* The props a class declares (tests/util.spec.js 361-461): none at all, or
\* an ordered object over prop1, prop2, with undefined removing a name.
OwnProps ==
  { << <<"prop1", T("string")>> >>,
    << <<"prop1", T("string")>>, <<"prop2", T("string")>> >>,
    << <<"prop2", T("number")>> >>,
    << <<"prop1", Undef>> >>,
    << <<"prop2", Undef>>, <<"prop1", T("number")>> >> }

NoDeclarations == [c \in {} |-> Class("TypedModel", FALSE, <<>>, FALSE, NoOverrides, {})]

\* The name of the n-th class declared.
ClassName(n) == "C" \o ToString(n)

InitInherit ==
  /\ decl = NoDeclarations
  /\ formats = BuiltinFormats
  /\ instance = NoInstance
  /\ last = NoOp

\* class C extends parent { static props = props }, or { } when hasProps
\* is false.
Declare(parent, hasProps, props) ==
  /\ Cardinality(DOMAIN decl) < MaxClasses
  /\ decl' = Merge(decl, [c \in {ClassName(Cardinality(DOMAIN decl) + 1)} |->
                            Class(parent, hasProps, props, FALSE, NoOverrides, {})])
  /\ UNCHANGED <<formats, instance, last>>

\* ModelCls.allProps
ReadAllProps(c) ==
  /\ last' = [op |-> "allProps", cls |-> c, arg |-> Undef, before |-> NoInstance,
              result |-> Ok(Properties(allProps(decl, c)), <<>>)]
  /\ UNCHANGED <<decl, formats, instance>>

NextInherit ==
  \/ \E parent \in DOMAIN decl \cup {"TypedModel"} :
       \/ Declare(parent, FALSE, <<>>)
       \/ \E props \in OwnProps : Declare(parent, TRUE, props)
  \/ \E c \in DOMAIN decl : ReadAllProps(c)

SpecInherit == InitInherit /\ [][NextInherit]_vars

(***************************************************************************)
(* Validating raw data                                                     *)
(***************************************************************************)
\* The longest list of errors the validator reports.
MaxErrors == 2

\* The lists of errors the validator may report.
ErrorLists ==
  UNION { [1..n -> {"additionalProperties", "type"}] : n \in 0..MaxErrors }

\* ModelCls.validate(values)
Validate(c, values, errors) ==
  /\ last' = [op |-> "validate", cls |-> c, arg |-> values, before |-> NoInstance,
              reported |-> errors, result |-> validate(decl, c, errors)]
  /\ UNCHANGED <<decl, formats, instance>>

NextValidate ==
  \E c \in DOMAIN decl : \E values \in Data(c) : \E errors \in ErrorLists :
    Validate(c, values, errors)

SpecValidate == Init /\ [][NextValidate]_vars

(***************************************************************************)
(* Constructing models whose default producers throw                       *)
(***************************************************************************)
InitFailing ==
  /\ decl = FailingDeclarations
  /\ formats = BuiltinFormats
  /\ instance = NoInstance
  /\ last = NoOp

NextFailing == \E c \in DOMAIN decl : \E values \in Data(c) : New(c, values)

SpecFailing == InitFailing /\ [][NextFailing]_vars

(***************************************************************************)
(* Registering formats, and models with formatted string properties        *)
(***************************************************************************)
\* The registrations made: the pair of the custom format test, a built-in
\* pair under another name, and a built-in name overwritten.
Registrations == { <<"custom", "custom">>, <<"custom", "date-time">>, <<"date", "date-time">> }

InitFormats ==
  /\ decl = FormatDeclarations
  /\ formats = BuiltinFormats
  /\ instance = NoInstance
  /\ last = NoOp

\* TypedModel.formats.register(name, pair)
Register(name, pair) ==
  /\ formats' = register(formats, name, pair)
  /\ last' = [op |-> "register", cls |-> "", arg |-> Str(name), before |-> NoInstance,
              result |-> Ok(Str(pair), <<>>)]
  /\ UNCHANGED <<decl, instance>>

NextFormats ==
  \/ \E r \in Registrations : Register(r[1], r[2])
  \/ \E c \in DOMAIN decl : \E values \in Data(c) : New(c, values)
  \/ \E values \in Updates(instance.cls) : SetValues(values)
  \/ AsObject

SpecFormats == InitFormats /\ [][NextFormats]_vars

(***************************************************************************)
(* Converting raw data with the static asObject, and converting again what *)
(* it returned                                                             *)
(***************************************************************************)
InitRoundTrip ==
  /\ decl = [c \in (DOMAIN Declarations) \cup (DOMAIN FormatDeclarations) |->
               IF c \in DOMAIN Declarations THEN Declarations[c]
               ELSE FormatDeclarations[c]]
  /\ formats = BuiltinFormats
  /\ instance = NoInstance
  /\ last = NoOp

\* The rest of ModelCls.asObject(data), built being the outcome of new this(data).
StaticAsObjectWith(c, data, again, built) ==
  /\ last' = [op |-> "ModelCls.asObject", cls |-> c, arg |-> data,
              before |-> IF built.ok THEN built.v ELSE NoInstance,
              result |-> IF built.ok THEN modelAsObject(decl, formats, built.v)
                         ELSE built,
              again |-> again]
  /\ UNCHANGED <<decl, formats, instance>>

\* ModelCls.asObject(data)
StaticAsObject(c, data, again) ==
  StaticAsObjectWith(c, data, again, Construct(decl, formats, c, data, <<>>))

\* ModelCls.asObject(o), for the o the call before it returned.
Again ==
  /\ last.op = "ModelCls.asObject" /\ last.result.ok /\ ~last.again
  /\ StaticAsObject(last.cls, last.result.v, TRUE)

NextRoundTrip ==
  \/ \E r \in Registrations : Register(r[1], r[2])
  \/ \E c \in DOMAIN decl : \E values \in Data(c) : StaticAsObject(c, values, FALSE)
  \/ Again

SpecRoundTrip == InitRoundTrip /\ [][NextRoundTrip]_vars

(***************************************************************************)
(* Deriving schema documents: a model declared on top of the models of the *)
(* tests, with or without a static schema                                  *)
(***************************************************************************)
\* The props TestModel declares: properties of a plain type, of a model
\* type (directly, as array items and inside an inline object) and
\* references to the model itself.
SchemaProps ==
  { << <<"name", T("string")>> >>,
    << <<"order", Model("Order")>> >>,
    << <<"table", Model("Table")>> >>,
    << <<"users", ArrayOf(Model("User"))>> >>,
    << <<"inner", ObjectOf(<< <<"user", Model("User")>> >>)>> >>,
    << <<"name", T("string")>>, <<"next", Ref("#")>> >>,
    << <<"name", T("string")>>, <<"children", ArrayOf(Ref("#"))>> >> }

\* The static schema TestModel declares (README 345-353), or an override of
\* a key that getSchema computes.
SchemaOverrides ==
  { [n \in {"additionalProperties", "required"} |->
       IF n = "required" THEN Arr(<<Str("name")>>) ELSE Bool(TRUE)],
    [n \in {"properties"} |-> Properties(<< <<"other", T("number")>> >>)],
    [n \in {"type", "$id"} |-> IF n = "type" THEN Str("array") ELSE Str("Renamed")] }

InitSchema ==
  /\ decl = Declarations
  /\ formats = BuiltinFormats
  /\ instance = NoInstance
  /\ last = NoOp

\* class TestModel extends TypedModel { static props = ...; static schema = ... }
DeclareModel(hasProps, props, hasSchema, schema) ==
  /\ "TestModel" \notin DOMAIN decl
  /\ decl' = Merge(decl, [c \in {"TestModel"} |->
                            Class("TypedModel", hasProps, props, hasSchema, schema, {})])
  /\ last' = [op |-> "declare", cls |-> "TestModel", arg |-> Undef,
              before |-> NoInstance, result |-> Ok(Undef, <<>>)]
  /\ UNCHANGED <<formats, instance>>

\* ModelCls.getSchema({ leaveModels })
ReadSchema(c, leaveModels) ==
  /\ last' = [op |-> "getSchema", cls |-> c, arg |-> Bool(leaveModels),
              before |-> NoInstance, result |-> GetSchema(decl, c, leaveModels, {})]
  /\ UNCHANGED <<decl, formats, instance>>

NextSchema ==
  \/ \E hasSchema \in BOOLEAN :
       \E schema \in IF hasSchema THEN SchemaOverrides ELSE { NoOverrides } :
         \/ DeclareModel(FALSE, <<>>, hasSchema, schema)
         \/ \E props \in SchemaProps : DeclareModel(TRUE, props, hasSchema, schema)
  \/ \E c \in DOMAIN decl : \E leaveModels \in BOOLEAN : ReadSchema(c, leaveModels)

SpecSchema == InitSchema /\ [][NextSchema]_vars

(***************************************************************************)
(* The nesting of constructor calls: models that refer to themselves and   *)
(* to each other                                                           *)
(***************************************************************************)
\* The constructor calls the engine nests before it gives up with a
\* RangeError (Maximum call stack size exceeded).
MaxStack == 5

\* Role refers to itself through the items of an array (tests/util.spec.js
\* 782-787), Tree does too and gives the array a default, and Ping and Pong
\* refer to each other.  Admin inherits the self-reference of Role, Team
\* holds an Admin, and Tail inherits the direct self-reference of Node.
NestingDeclarations ==
  [c \in {"Role", "Admin", "Team", "Node", "Tail", "Tree", "Ping", "Pong"} |->
     CASE c = "Role" -> Class("TypedModel", TRUE, RoleProps, FALSE, NoOverrides, {})
       [] c = "Admin" -> Class("Role", FALSE, <<>>, FALSE, NoOverrides, {})
       [] c = "Team" ->
            Class("TypedModel", TRUE,
                  << <<"lead", Model("Admin")>>, <<"teams", ArrayOf(Ref("#"))>> >>,
                  FALSE, NoOverrides, {})
       [] c = "Node" -> Class("TypedModel", TRUE, NodeProps, FALSE, NoOverrides, {})
       [] c = "Tail" -> Class("Node", FALSE, <<>>, FALSE, NoOverrides, {})
       [] c = "Tree" ->
            Class("TypedModel", TRUE,
                  << <<"name", T("string")>>,
                     <<"children", Default(ArrayOf(Ref("#")), Arr(<<EmptyObj>>))>> >>,
                  FALSE, NoOverrides, {})
       [] c = "Ping" ->
            Class("TypedModel", TRUE,
                  << <<"n", T("number")>>, <<"pong", Model("Pong")>> >>,
                  FALSE, NoOverrides, {})
       [] c = "Pong" ->
            Class("TypedModel", TRUE,
                  << <<"n", T("number")>>, <<"ping", Model("Ping")>> >>,
                  FALSE, NoOverrides, {})]

RECURSIVE PingData(_, _)
\* Pings and pongs, one inside the other.
PingData(key, depth) ==
  IF depth = 0 THEN { EmptyObj, O1("n", Num(1)) }
  ELSE { O1(key, inner) : inner \in PingData(IF key = "pong" THEN "ping" ELSE "pong",
                                              depth - 1) }

RECURSIVE TreeData(_)
\* Trees that give every node its children.
TreeData(depth) ==
  IF depth = 0 THEN { O1("children", Arr(<<>>)) }
  ELSE { O2("name", Str("Sub"), "children", Arr(a)) :
           a \in UNION { [1..m -> TreeData(depth - 1)] : m \in 1..MaxItems } }

NestingData(c) ==
  CASE c \in {"Role", "Admin"} -> RoleTrees
    [] c = "Team" ->
         { EmptyObj, O1("lead", RoleData(1)),
           O2("lead", RoleData(0), "teams", Arr(<<O1("lead", RoleData(1))>>)) }
    [] c \in {"Node", "Tail"} -> { EmptyObj, O1("next", O1("value", Num(2))) }
    [] c = "Tree" -> UNION { TreeData(n) : n \in 0..(MaxDepth - 1) }
                       \cup { EmptyObj, O1("name", Str("Leaf")) }
    [] c = "Ping" -> UNION { PingData("pong", n) : n \in 0..MaxDepth }
    [] c = "Pong" -> UNION { PingData("ping", n) : n \in 0..MaxDepth }

Max(m, n) == IF m > n THEN m ELSE n

RECURSIVE Nesting(_, _, _, _, _)
RECURSIVE NestingOfProps(_, _, _, _, _, _)
RECURSIVE NestingOfItems(_, _, _, _, _, _)
RECURSIVE NestingOfNew(_, _, _, _)
\* The deepest nesting of constructor calls that buildValue reaches for a
\* value, depth of them being entered already: the default is taken for an
\* undefined value, '#' is the class under construction, and a model class
\* is instantiated by a nested constructor call.
Nesting(d, self, schema, raw, depth) ==
  LET value == IF raw # Undef \/ schema.default = <<>> \/ schema.default[1].fn
               THEN raw ELSE schema.default[1].v
      type == IF schema.type = TypeAbsent /\ schema.ref = "#"
              THEN Model(self) ELSE schema
  IN CASE value = Undef -> depth
       [] type.type = "array" /\ value.k = "array" ->
            NestingOfItems(d, self, type.items[1], value.a, 1, depth)
       [] type.type = "object" /\ type.hasProperties /\ value.k = "object" ->
            NestingOfProps(d, self, type.properties, value, 1, depth)
       [] type.type = "model" /\ type.cls \in DOMAIN d ->
            NestingOfNew(d, type.cls, value, depth + 1)
       [] OTHER -> depth

NestingOfProps(d, self, props, values, i, depth) ==
  IF i > Len(props) THEN depth
  ELSE Max(IF props[i][2].readOnly THEN depth
           ELSE Nesting(d, self, props[i][2], Read(d, values, props[i][1]), depth),
           NestingOfProps(d, self, props, values, i + 1, depth))

NestingOfItems(d, self, items, a, i, depth) ==
  IF i > Len(a) THEN depth
  ELSE Max(Nesting(d, self, items, a[i], depth),
           NestingOfItems(d, self, items, a, i + 1, depth))

\* new ModelCls(values) as constructor call number depth; the engine lets
\* no call past MaxStack go deeper.
NestingOfNew(d, c, values, depth) ==
  IF depth > MaxStack \/ allProps(d, c) = <<>> THEN depth
  ELSE NestingOfProps(d, c, allProps(d, c),
                      IF Falsy(values) THEN EmptyObj ELSE values, 1, depth)

InitNesting ==
  /\ decl = NestingDeclarations
  /\ formats = BuiltinFormats
  /\ instance = NoInstance
  /\ last = NoOp

\* new ModelCls(values), depth being the nesting of constructor calls it
\* reaches.
NewNested(c, values, depth) ==
  /\ last' = [op |-> "new", cls |-> c, arg |-> values, before |-> NoInstance,
              result |-> IF depth > MaxStack THEN Throw("RangeError", "", <<>>)
                         ELSE Construct(decl, formats, c, values, <<>>),
              depth |-> depth]
  /\ instance' = IF last'.result.ok THEN last'.result.v ELSE instance
  /\ UNCHANGED <<decl, formats>>

NextNesting ==
  \/ \E c \in DOMAIN decl : \E values \in NestingData(c) :
       NewNested(c, values, NestingOfNew(decl, c, values, 1))
  \/ \E values \in Updates(instance.cls) : SetValues(values)
  \/ AsObject

SpecNesting == InitNesting /\ [][NextNesting]_vars

(***************************************************************************)
(* Who else holds the values of a built instance.  Values of the model     *)
(* have no identity, so the sharing is computed next to the value: every   *)
(* step of the build either allocates (map, reduce, new) or returns the    *)
(* reference it was given.                                                 *)
(***************************************************************************)
\* The values that can be mutated in place.
Mutable(v) == v.k \in {"array", "object", "instance", "date", "custom"}

RECURSIVE Shared(_, _, _, _, _, _)
RECURSIVE SharedOfProps(_, _, _, _, _, _, _)
RECURSIVE SharedOfNew(_, _, _, _, _)
\* The holders ("input": the raw input tree, "default": a literal default
\* of the declaration) of the mutable values reachable from what buildValue
\* returns for a value held by origin.  The second pass of the constructor
\* (setValues of the built values) allocates or returns in the same places.
Shared(d, fmts, self, schema, raw, origin) ==
  LET taken == raw = Undef /\ schema.default # <<>>
      value == IF ~taken THEN raw
               ELSE IF schema.default[1].fn THEN Undef ELSE schema.default[1].v
      holder == IF taken THEN "default" ELSE origin
      type == IF schema.type = TypeAbsent /\ schema.ref = "#"
              THEN Model(self) ELSE schema
  IN CASE value = Undef -> {}
       [] type.type = "array" /\ value.k = "array" ->
            UNION { Shared(d, fmts, self, type.items[1], value.a[i], holder) :
                      i \in DOMAIN value.a }
       [] type.type = "object" /\ value.k = "object"
            /\ (type.hasProperties \/ type.additionalProperties = Bool(FALSE)) ->
            SharedOfProps(d, fmts, self, type.properties, value, 1, holder)
       [] type.type = "model" /\ type.cls \in DOMAIN d ->
            SharedOfNew(d, fmts, type.cls, value, holder)
       [] type.type = "string" /\ Find(fmts, type.format) # <<>> -> {}
       [] OTHER -> IF Mutable(value) THEN {holder} ELSE {}

SharedOfProps(d, fmts, self, props, values, i, origin) ==
  IF i > Len(props) THEN {}
  ELSE (IF props[i][2].readOnly THEN {}
        ELSE Shared(d, fmts, self, props[i][2], Read(d, values, props[i][1]), origin))
       \cup SharedOfProps(d, fmts, self, props, values, i + 1, origin)

\* new ModelCls(values): a class without properties that allows additional
\* ones assigns the values of the input to the instance as they are.
SharedOfNew(d, fmts, c, values, origin) ==
  IF Falsy(values) THEN SharedOfProps(d, fmts, c, allProps(d, c), EmptyObj, 1, origin)
  ELSE IF allProps(d, c) = <<>> /\ "properties" \notin DOMAIN StaticSchema(d, c)
          /\ AdditionalProperties(BaseDocument(d, c)) # Bool(FALSE)
  THEN IF values.k \in {"object", "instance"}
            /\ \E n \in DOMAIN values.f : Mutable(values.f[n])
       THEN {origin} ELSE {}
  ELSE SharedOfProps(d, fmts, c, allProps(d, c), values, 1, origin)

\* Table, Box and Any of the tests, and a Bag with an object property
\* without properties of its own, whose default is a literal, and an array
\* of such objects.
InitOwning ==
  /\ decl = [c \in {"User", "Table", "Box", "Any", "Bag"} |->
               IF c # "Bag" THEN Declarations[c]
               ELSE Class("TypedModel", TRUE,
                          << <<"meta", Default(T("object"), EmptyObj)>>,
                             <<"list", ArrayOf(T("object"))>> >>,
                          FALSE, NoOverrides, {})]
  /\ formats = BuiltinFormats
  /\ instance = NoInstance
  /\ last = NoOp

OwningData(c) ==
  CASE c = "Bag" ->
         { EmptyObj, O1("meta", O1("a", Num(1))), O1("list", Arr(<<>>)),
           O1("list", Arr(<<O1("a", Num(1))>>)) }
    [] c = "Any" -> AnyData \cup { O1("extra", Arr(<<Num(1)>>)) }
    [] OTHER -> Data(c)

\* new ModelCls(values), with the holders the instance shares values with.
NewOwned(c, values) ==
  /\ last' = [op |-> "new", cls |-> c, arg |-> values, before |-> NoInstance,
              result |-> Construct(decl, formats, c, values, <<>>),
              shared |-> SharedOfNew(decl, formats, c, values, "input")]
  /\ instance' = IF last'.result.ok THEN last'.result.v ELSE instance
  /\ UNCHANGED <<decl, formats>>

NextOwning ==
  \/ \E c \in DOMAIN decl : \E values \in OwningData(c) : NewOwned(c, values)
  \/ \E values \in Updates(instance.cls) : SetValues(values)
  \/ AsObject

SpecOwning == InitOwning /\ [][NextOwning]_vars

(***************************************************************************)
(* Properties                                                              *)
(***************************************************************************)
\* The instance is what new ModelCls({}) returns.
FreshFromEmpty(this) ==
  /\ Construct(decl, formats, this.cls, EmptyObj, <<>>).ok
  /\ Construct(decl, formats, this.cls, EmptyObj, <<>>).v = this

\* What the constructor reads its values from.
GivenValues(arg) == IF Falsy(arg) THEN EmptyObj ELSE arg

\* C1: serializing an instance constructed from empty input gives, for every
\* effective property: a value when it is not read-only and declares a
\* default; without a default, the empty array when it is a writable array,
\* the computed value when the class defines a getter for it, and undefined
\* otherwise.
C1_EmptyInputSerialized ==
  (last.op = "asObject" /\ FreshFromEmpty(last.before) /\ last.result.ok) =>
    \A i \in 1..Len(allProps(decl, last.cls)) :
      LET n == allProps(decl, last.cls)[i][1]
          s == allProps(decl, last.cls)[i][2]
          out == last.result.v.f
      IN /\ n \in DOMAIN out
         /\ (s.default # <<>> /\ ~s.readOnly) => out[n] # Undef
         /\ s.default = <<>> =>
              out[n] = IF s.type = "array" /\ ~s.readOnly THEN Arr(<<>>)
                       ELSE IF HasGetter(decl, last.cls, n)
                       THEN Getter(decl, last.before, n)
                       ELSE Undef

\* asObject() of new Box({}): the produced and the literal default are
\* there, the inline object without a default is undefined.
C1_Witness ==
  /\ last.op = "asObject" /\ last.cls = "Box" /\ last.result.ok
  /\ FreshFromEmpty(last.before)
  /\ last.result.v.f["theAnswer"] = Num(42)
  /\ last.result.v.f["tags"] = Arr(<<Str("new")>>)
  /\ last.result.v.f["nested"] = Undef

\* C1 as the specification words it: every writable property with a default
\* has a value and every property without a default is omitted (holds no
\* value).
C1_OmitsAllWithoutDefault ==
  (last.op = "asObject" /\ FreshFromEmpty(last.before) /\ last.result.ok) =>
    \A i \in 1..Len(allProps(decl, last.cls)) :
      LET n == allProps(decl, last.cls)[i][1]
          s == allProps(decl, last.cls)[i][2]
          out == last.result.v.f
      IN /\ (s.default # <<>> /\ ~s.readOnly) => (n \in DOMAIN out /\ out[n] # Undef)
         /\ s.default = <<>> => (n \notin DOMAIN out \/ out[n] = Undef)

RECURSIVE NoReadOnlyIn(_, _)
\* No read-only property of the schema is an own property of the built
\* value, at any depth.
NoReadOnlyIn(schema, v) ==
  CASE schema.type = "model" /\ v.k = "instance" ->
         \A i \in 1..Len(allProps(decl, v.cls)) :
           LET n == allProps(decl, v.cls)[i][1]
               s == allProps(decl, v.cls)[i][2]
           IN IF s.readOnly THEN n \notin DOMAIN v.f
              ELSE n \in DOMAIN v.f =>
                     NoReadOnlyIn(ResolveRef(s, [r \in {"#"} |-> v.cls]), v.f[n])
    [] schema.type = "object" /\ v.k = "object" ->
         \A i \in 1..Len(schema.properties) :
           LET n == schema.properties[i][1]
               s == schema.properties[i][2]
           IN IF s.readOnly THEN n \notin DOMAIN v.f
              ELSE n \in DOMAIN v.f => NoReadOnlyIn(s, v.f[n])
    [] schema.type = "array" /\ v.k = "array" ->
         \A i \in 1..Len(v.a) : NoReadOnlyIn(schema.items[1], v.a[i])
    [] OTHER -> TRUE

\* C2: whatever the input of the constructions and setValues calls so far,
\* no read-only property is an own property of the instance, of a nested
\* instance or of an inline object it holds.
C2_ReadOnlyNeverWritten ==
  instance # NoInstance => NoReadOnlyIn(Model(instance.cls), instance)

\* new Box({nested: {key, secret, user, self}}): the input supplies a value
\* for the read-only secret of the inline object, and the rest is built.
C2_Witness ==
  /\ last.op = "new" /\ last.cls = "Box" /\ last.result.ok
  /\ HasOwn(last.arg, "nested") /\ HasOwn(last.arg.f["nested"], "secret")
  /\ instance = last.result.v
  /\ instance.f["nested"].f["key"] = Str("kk")

RECURSIVE Chain(_, _)
\* The class, its parent, ..., the root.
Chain(d, c) == IF c = "TypedModel" THEN <<>> ELSE <<c>> \o Chain(d, d[c].parent)

\* Whether the i-th class of a chain declares the name in its own props.
DeclaresAt(d, chain, i, n) ==
  d[chain[i]].hasProps /\ n \in Names(d[chain[i]].props)

\* The value the nearest declaring class of the chain gives the name.
NearestValue(d, chain, n) ==
  Lookup(d[chain[CHOOSE i \in 1..Len(chain) :
                     /\ DeclaresAt(d, chain, i, n)
                     /\ \A j \in 1..(i - 1) : ~DeclaresAt(d, chain, j, n)]].props, n)

\* The overlay of the own props along the chain, root first, with the names
\* that end up undefined removed: name -> schema.
Effective(d, c) ==
  LET chain == Chain(d, c)
      declared == {n \in {"prop1", "prop2"} :
                     \E i \in 1..Len(chain) : DeclaresAt(d, chain, i, n)}
  IN [n \in {m \in declared : NearestValue(d, chain, m) # Undef} |->
        NearestValue(d, chain, n)]

\* C3: allProps of a class is the overlay of the own props along its chain,
\* the root-most first and the class's own last, without the names whose
\* final value is undefined; each name is listed once.
C3_AllPropsOverlay ==
  last.op = "allProps" =>
    LET entries == last.result.v.entries
    IN /\ Cardinality(Names(entries)) = Len(entries)
       /\ Names(entries) = DOMAIN Effective(decl, last.cls)
       /\ \A n \in Names(entries) : Lookup(entries, n) = Effective(decl, last.cls)[n]

\* allProps of a class without props of its own, whose parent removes prop1
\* that the grandparent declares and adds prop1 to nothing else.
C3_Witness ==
  /\ last.op = "allProps"
  /\ Len(Chain(decl, last.cls)) = 3
  /\ ~decl[last.cls].hasProps
  /\ decl[decl[last.cls].parent].props = << <<"prop1", Undef>> >>
  /\ decl[decl[decl[last.cls].parent].parent].props =
       << <<"prop1", T("string")>>, <<"prop2", T("string")>> >>
  /\ Names(last.result.v.entries) = {"prop2"}

RECURSIVE ModelsBuilt(_, _, _)
\* Under the schema, wherever a model class is referenced: an object of the
\* raw value became the instance of that class built from it, and a missing
\* value without a default stayed undefined.
ModelsBuilt(schema, raw, built) ==
  CASE schema.type = "model" ->
         /\ raw.k = "object" =>
              /\ built.k = "instance" /\ built.cls = schema.cls
              /\ built = Construct(decl, formats, schema.cls, raw, <<>>).v
         /\ (raw = Undef /\ schema.default = <<>>) => built = Undef
    [] schema.type = "array" /\ raw.k = "array" ->
         /\ built.k = "array" /\ Len(built.a) = Len(raw.a)
         /\ \A i \in 1..Len(raw.a) : ModelsBuilt(schema.items[1], raw.a[i], built.a[i])
    [] schema.type = "object" /\ raw.k = "object" ->
         /\ built.k = "object"
         /\ \A i \in 1..Len(schema.properties) :
              ~schema.properties[i][2].readOnly =>
                ModelsBuilt(schema.properties[i][2],
                            Read(decl, raw, schema.properties[i][1]),
                            Read(decl, built, schema.properties[i][1]))
    [] OTHER -> TRUE

\* C4: after a construction, every property that references a model class,
\* at the top level, inside an inline object or as the items of an array,
\* holds the instance of that class built from the object the input
\* supplies, and undefined when the input has no value and the schema no
\* default.
C4_ModelReferencesBuilt ==
  (last.op = "new" /\ last.result.ok) =>
    \A i \in 1..Len(allProps(decl, last.cls)) :
      ~allProps(decl, last.cls)[i][2].readOnly =>
        ModelsBuilt(allProps(decl, last.cls)[i][2],
                    Read(decl, GivenValues(last.arg), allProps(decl, last.cls)[i][1]),
                    Read(decl, last.result.v, allProps(decl, last.cls)[i][1]))

\* new Box({nested: {user: Jack, ...}}): the user of the inline object is a
\* User built from Jack.
C4_Witness ==
  /\ last.op = "new" /\ last.cls = "Box" /\ last.result.ok
  /\ HasOwn(last.arg, "nested") /\ HasOwn(last.arg.f["nested"], "user")
  /\ last.arg.f["nested"].f["user"] = Jack
  /\ last.result.v.f["nested"].f["user"] =
       Inst("User", [n \in {"name", "surname"} |->
                       IF n = "name" THEN Str("Jack") ELSE Str("Crack")])

\* Whether the class declares a self-reference, directly or as the items
\* of an array.
SelfReferencing(d, c) ==
  \E i \in 1..Len(allProps(d, c)) :
    LET s == allProps(d, c)[i][2]
    IN \/ (s.type = TypeAbsent /\ s.ref = "#")
       \/ (s.type = "array" /\ s.items # <<>> /\ s.items[1].type = TypeAbsent
             /\ s.items[1].ref = "#")

\* Every value at a self-referencing position of the instance is an
\* instance of the owning class, at every depth.
RECURSIVE SelfBuilt(_, _, _)
SelfBuilt(c, raw, built) ==
  /\ built.k = "instance" /\ built.cls = c
  /\ \A i \in 1..Len(allProps(decl, c)) :
       LET n == allProps(decl, c)[i][1]
           s == allProps(decl, c)[i][2]
       IN /\ (s.type = TypeAbsent /\ s.ref = "#" /\ Read(decl, raw, n).k = "object") =>
               SelfBuilt(c, Read(decl, raw, n), Read(decl, built, n))
          /\ (s.type = "array" /\ s.items[1].ref = "#"
                /\ Read(decl, raw, n).k = "array") =>
               /\ Read(decl, built, n).k = "array"
               /\ Len(Read(decl, built, n).a) = Len(Read(decl, raw, n).a)
               /\ \A j \in 1..Len(Read(decl, raw, n).a) :
                    SelfBuilt(c, Read(decl, raw, n).a[j], Read(decl, built, n).a[j])

\* C5: constructing a class that declares a self-reference, directly or as
\* the items of an array, from an object returns an instance in which every
\* supplied value at a self-referencing position is an instance of the same
\* class, at every depth.
C5_SelfReferenceResolved ==
  (last.op = "new" /\ SelfReferencing(decl, last.cls) /\ last.arg.k = "object") =>
    /\ last.result.ok
    /\ SelfBuilt(last.cls, last.arg, last.result.v)

\* new Node({value: 1, next: {value: 2}}), next being {$ref: '#'}: the
\* constructor throws a TypeError and returns nothing.
C5_Witness ==
  /\ last.op = "new" /\ last.cls = "Node"
  /\ HasOwn(last.arg, "next") /\ last.arg.f["next"].k = "object"
  /\ ~last.result.ok /\ last.result.err = "TypeError"

\* C6: after a construction every array property that is not read-only
\* holds an array, the empty one when the input has no value for it and the
\* schema declares no default.
C6_WritableArraysPresent ==
  (last.op = "new" /\ last.result.ok) =>
    \A i \in 1..Len(allProps(decl, last.cls)) :
      LET n == allProps(decl, last.cls)[i][1]
          s == allProps(decl, last.cls)[i][2]
      IN (s.type = "array" /\ ~s.readOnly) =>
           /\ n \in DOMAIN last.result.v.f
           /\ last.result.v.f[n].k = "array"
           /\ (Read(decl, GivenValues(last.arg), n) = Undef /\ s.default = <<>>) =>
                last.result.v.f[n] = Arr(<<>>)

\* new Table({}): people is the empty array.
C6_Witness ==
  /\ last.op = "new" /\ last.cls = "Table" /\ last.arg = EmptyObj
  /\ last.result.ok
  /\ last.result.v.f["people"] = Arr(<<>>)

\* C6 as the specification words it: no array property is undefined on a
\* constructed instance.
C6_NoArrayAbsent ==
  (last.op = "new" /\ last.result.ok) =>
    \A i \in 1..Len(allProps(decl, last.cls)) :
      LET n == allProps(decl, last.cls)[i][1]
          s == allProps(decl, last.cls)[i][2]
      IN s.type = "array" => Read(decl, last.result.v, n) # Undef

\* C7: setValues(p) leaves every own property of the instance whose name is
\* not an own key of p as it was, and creates none.
C7_SetValuesFrame ==
  last.op = "setValues" =>
    \A n \in (DOMAIN last.before.f) \cup (DOMAIN instance.f) :
      ~HasOwn(last.arg, n) =>
        /\ n \in DOMAIN last.before.f
        /\ n \in DOMAIN instance.f
        /\ instance.f[n] = last.before.f[n]

\* setValues({name: 'Jane'}) on Jack Crack: the surname is still Crack.
C7_Witness ==
  /\ last.op = "setValues" /\ last.cls = "User" /\ last.result.ok
  /\ last.arg = O1("name", Str("Jane"))
  /\ last.before.f["surname"] = Str("Crack")
  /\ instance.f["name"] = Str("Jane")
  /\ instance.f["surname"] = Str("Crack")

\* C8: setValues invokes no default producer, and a property whose key p
\* holds with the value undefined is afterwards undefined or what it was:
\* not a default and not the empty-array fallback.
C8_SetValuesAppliesNoDefault ==
  last.op = "setValues" =>
    /\ last.result.log = <<>>
    /\ \A n \in DOMAIN instance.f :
         (HasOwn(last.arg, n) /\ last.arg.f[n] = Undef) =>
           \/ instance.f[n] = Undef
           \/ (n \in DOMAIN last.before.f /\ instance.f[n] = last.before.f[n])

\* setValues({name: undefined}) on Jack Crack: the name is the default John.
C8_Witness ==
  /\ last.op = "setValues" /\ last.cls = "User" /\ last.result.ok
  /\ last.arg = O1("name", Undef)
  /\ last.before.f["name"] = Str("Jack")
  /\ instance.f["name"] = Str("John")

\* C9: an instance of a class with a non-empty effective property set has
\* no own property that is not an effective property of its class, after
\* any constructions and setValues calls.
C9_UnknownKeysIgnored ==
  (instance # NoInstance /\ allProps(decl, instance.cls) # <<>>) =>
    DOMAIN instance.f \subseteq Names(allProps(decl, instance.cls))

\* setValues({id: undefined, total: 9}) on an Order, whose schema allows
\* additional properties: total is not set.
C9_Witness ==
  /\ last.op = "setValues" /\ last.cls = "Order" /\ last.result.ok
  /\ HasOwn(last.arg, "total")
  /\ "total" \notin DOMAIN instance.f
  /\ "id" \in DOMAIN instance.f

\* C10: constructing a class with declared properties and
\* additionalProperties false from an object that has keys, none of them a
\* declared property, throws a validation error before anything is built.
C10_ConstructionValidates ==
  ( /\ last.op = "new"
    /\ allProps(decl, last.cls) # <<>>
    /\ GetSchema(decl, last.cls, TRUE, {}).ok
    /\ AdditionalProperties(GetSchema(decl, last.cls, TRUE, {}).v) = Bool(FALSE)
    /\ last.arg.k = "object"
    /\ DOMAIN last.arg.f # {}
    /\ DOMAIN last.arg.f \cap Names(allProps(decl, last.cls)) = {} ) =>
    /\ ~last.result.ok
    /\ last.result.err = "ValidationError"
    /\ last.result.log = <<>>

\* new User({firstName: 'John', lastName: 'Doe'}): the constructor returns
\* a User with the defaults.
C10_Witness ==
  /\ last.op = "new" /\ last.cls = "User"
  /\ last.arg = O2("firstName", Str("John"), "lastName", Str("Doe"))
  /\ last.result.ok
  /\ last.result.v.f["name"] = Str("John")

\* C11: validate returns undefined when the validator reports no error,
\* and otherwise exactly the list of errors the validator reports.
C11_ValidateReturnsErrorList ==
  (last.op = "validate" /\ last.result.ok) =>
    last.result.v = IF last.reported = <<>> THEN Undef ELSE Arr(last.reported)

\* User.validate({firstName: 'John', lastName: 'Doe'}) with one error
\* reported: the validator's result object is returned, not its list.
C11_Witness ==
  /\ last.op = "validate" /\ last.cls = "User" /\ last.result.ok
  /\ last.arg = O2("firstName", Str("John"), "lastName", Str("Doe"))
  /\ last.reported = <<"additionalProperties">>
  /\ last.result.v = ValidatorResult(<<"additionalProperties">>)

RECURSIVE FailurePath(_, _, _)
RECURSIVE FailureInProps(_, _, _, _)
RECURSIVE FailureInItems(_, _, _, _)
\* The path, from the root of the outermost construction, of the first
\* value under the schema whose default producer throws; "" when none does.
FailurePath(path, schema, raw) ==
  IF raw = Undef
  THEN IF schema.default # <<>> /\ schema.default[1].fn
            /\ ~CallProducer(schema.default[1].id, path, <<>>).ok
       THEN path ELSE ""
  ELSE CASE schema.type = "array" /\ raw.k = "array" ->
              FailureInItems(path, schema.items[1], raw.a, 1)
         [] schema.type = "object" /\ raw.k = "object" ->
              FailureInProps(path, schema.properties, raw, 1)
         [] schema.type = "model" /\ raw.k = "object" ->
              FailureInProps(path, allProps(decl, schema.cls), raw, 1)
         [] OTHER -> ""

FailureInProps(path, props, raw, i) ==
  IF i > Len(props) THEN ""
  ELSE LET here == FailurePath(path \o "." \o props[i][1], props[i][2],
                               Read(decl, raw, props[i][1]))
       IN IF here # "" THEN here ELSE FailureInProps(path, props, raw, i + 1)

FailureInItems(path, items, a, i) ==
  IF i > Len(a) THEN ""
  ELSE LET here == FailurePath(path \o "[" \o ToString(i - 1) \o "]", items, a[i])
       IN IF here # "" THEN here ELSE FailureInItems(path, items, a, i + 1)

\* C12: when a default producer throws during a construction, the exception
\* carries the path of the failed value from the root of the outermost
\* construction, through inline objects, arrays and nested models.
C12_PathFromOutermostRoot ==
  (last.op = "new" /\ ~last.result.ok /\ last.result.err = "Error") =>
    last.result.traceback =
      FailureInProps("$", allProps(decl, last.cls), GivenValues(last.arg), 1)

\* new Holder({parts: [full, lacking]}): the producer of dynamic throws in
\* the second Fragile, and the path is that of dynamic inside the Fragile.
C12_Witness ==
  /\ last.op = "new" /\ last.cls = "Holder" /\ ~last.result.ok
  /\ HasOwn(last.arg, "parts") /\ Len(last.arg.f["parts"].a) = 2
  /\ HasOwn(last.arg.f["parts"].a[1], "dynamic")
  /\ ~HasOwn(last.arg.f["parts"].a[2], "dynamic")
  /\ last.result.traceback = "$.dynamic"

RECURSIVE HoldsInstance(_)
\* A model instance is the value or lies somewhere inside it.
HoldsInstance(v) ==
  CASE v.k = "instance" -> TRUE
    [] v.k = "array" -> \E i \in DOMAIN v.a : HoldsInstance(v.a[i])
    [] v.k = "object" -> \E n \in DOMAIN v.f : HoldsInstance(v.f[n])
    [] OTHER -> FALSE

\* C13: the result of asObject contains no model instance at any depth,
\* whether the instance is held directly, in an array or in an inline object.
C13_NoInstanceInPlainObject ==
  (last.op = "asObject" /\ last.result.ok) => ~HoldsInstance(last.result.v)

\* A Table with one User in people is serialized: people[0] of the result is
\* still the User instance.
C13_Witness ==
  /\ last.op = "asObject" /\ last.cls = "Table" /\ last.result.ok
  /\ HasOwn(last.before, "people") /\ Len(last.before.f["people"].a) = 1
  /\ last.before.f["people"].a[1].k = "instance"
  /\ last.result.v.f["people"].a[1] = last.before.f["people"].a[1]

\* The full name of a User, computed from the values the instance holds now.
FullNameOf(user) ==
  Str(StringOf(IF "name" \in DOMAIN user.f THEN user.f["name"] ELSE Undef)
        \o " "
        \o StringOf(IF "surname" \in DOMAIN user.f THEN user.f["surname"] ELSE Undef))

\* C14: no value is ever stored for the read-only computed property fullName,
\* and asObject emits for it the computation applied to the values the
\* instance holds at that moment, for a User and for the User of an Order.
C14_ComputedPropertyRecomputed ==
  /\ (instance.k = "instance" /\ instance.cls = "User") =>
       "fullName" \notin DOMAIN instance.f
  /\ (last.op = "asObject" /\ last.result.ok /\ last.cls = "User") =>
       last.result.v.f["fullName"] = FullNameOf(last.before)
  /\ (last.op = "asObject" /\ last.result.ok /\ last.cls = "Order"
        /\ last.before.f["user"].k = "instance") =>
       /\ "fullName" \notin DOMAIN last.before.f["user"].f
       /\ last.result.v.f["user"].f["fullName"] = FullNameOf(last.before.f["user"])

\* A User built from Jack Crack, renamed Jane by setValues, is serialized:
\* fullName is 'Jane Crack'.
C14_Witness ==
  /\ last.op = "asObject" /\ last.cls = "User" /\ last.result.ok
  /\ last.before.f["name"] = Str("Jane") /\ last.before.f["surname"] = Str("Crack")
  /\ last.result.v.f["fullName"] = Str("Jane Crack")

\* C15: converting again what ModelCls.asObject returned for a valid input
\* returns it unchanged: asObject(new T(o)) = o for o = asObject(new T(I)).
C15_RoundTrip ==
  (last.op = "ModelCls.asObject" /\ last.again) =>
    (last.result.ok /\ last.result.v = last.arg)

\* With the custom pair registered, Custom.asObject({custom: 'asdf'}) is
\* converted again: the second result differs from the first.
C15_Witness ==
  /\ last.op = "ModelCls.asObject" /\ last.again /\ last.cls = "Custom"
  /\ Find(formats, "custom") = <<"custom">>
  /\ last.arg = O1("custom", Custom(Str("asdf")))
  /\ last.result.ok
  /\ last.result.v = O1("custom", Custom(Custom(Str("asdf"))))

\* C16: for every key of the static schema of a class, the document
\* getSchema derives holds the value the static schema gives that key.
C16_OverridesWin ==
  (last.op = "getSchema" /\ last.result.ok) =>
    \A key \in DOMAIN StaticSchema(decl, last.cls) :
      /\ key \in DOMAIN last.result.v
      /\ last.result.v[key] = StaticSchema(decl, last.cls)[key]

\* TestModel declares a property and a static schema that overrides
\* properties: the derived document lists the declared property.
C16_Witness ==
  /\ last.op = "getSchema" /\ last.cls = "TestModel" /\ last.result.ok
  /\ allProps(decl, "TestModel") = << <<"name", T("string")>> >>
  /\ StaticSchema(decl, "TestModel")
       = [n \in {"properties"} |-> Properties(<< <<"other", T("number")>> >>)]
  /\ last.result.v["properties"] = Properties(<< <<"name", T("string")>> >>)

RECURSIVE HasMarker(_)
\* A model class is the type of the schema, or of a schema somewhere inside
\* the value.
HasMarker(v) ==
  IF "k" \notin DOMAIN v
  THEN \/ v.type = "model"
       \/ (v.items # <<>> /\ HasMarker(v.items[1]))
       \/ \E i \in 1..Len(v.properties) : HasMarker(v.properties[i][2])
  ELSE CASE v.k = "schemaDoc" -> \E key \in DOMAIN v.doc : HasMarker(v.doc[key])
         [] v.k = "properties" -> \E i \in 1..Len(v.entries) : HasMarker(v.entries[i][2])
         [] OTHER -> FALSE

\* C17: the document getSchema() derives in expanded mode holds no model
\* class at any depth: not as the type of a property, of the items of an
\* array or of a property of an inline object.
C17_NoModelClassLeft ==
  (last.op = "getSchema" /\ last.arg = Bool(FALSE) /\ last.result.ok) =>
    ~HasMarker(SchemaDoc(last.result.v))

\* Table.getSchema(): the items of people still have the class User as type.
C17_Witness ==
  /\ last.op = "getSchema" /\ last.cls = "Table" /\ last.arg = Bool(FALSE)
  /\ last.result.ok
  /\ Lookup(last.result.v["properties"].entries, "people") = ArrayOf(Model("User"))

RECURSIVE RefersToSelf(_)
\* The schema is a reference to the model itself, or the items of the array
\* are.
RefersToSelf(schema) ==
  \/ (schema.type = TypeAbsent /\ schema.ref = "#")
  \/ (schema.type = "array" /\ schema.items # <<>> /\ RefersToSelf(schema.items[1]))

\* C18: getSchema() in expanded mode returns a document for every class
\* with a property that refers to the class itself, directly or as the
\* items of an array, and the document holds the reference as declared.
C18_SelfReferenceKept ==
  (last.op = "getSchema" /\ last.arg = Bool(FALSE)) =>
    \A i \in 1..Len(allProps(decl, last.cls)) :
      RefersToSelf(allProps(decl, last.cls)[i][2]) =>
        /\ last.result.ok
        /\ last.result.v["properties"].entries[i] = allProps(decl, last.cls)[i]

\* Node.getSchema(), next being {$ref: '#'}: a TypeError and no document.
C18_Witness ==
  /\ last.op = "getSchema" /\ last.cls = "Node" /\ last.arg = Bool(FALSE)
  /\ RefersToSelf(Lookup(allProps(decl, "Node"), "next"))
  /\ ~last.result.ok /\ last.result.err = "TypeError"

\* The format names of the model that no register call was made for.
Unregistered == { "", "missing", "constructor" } \ DOMAIN formats

\* C19: for a format name that was never registered (the absent name
\* included) find returns nothing and loadValue returns the raw value, so a
\* model builds from a value of such a format, holds the raw value, and
\* asObject returns that value.
C19_UnknownFormatsNeverFail ==
  /\ \A name \in Unregistered :
       /\ Find(formats, name) = <<>>
       /\ \A raw \in { Str("asdf"), Num(24), Null } :
            LoadValue(formats, name, raw) = Ok(raw, <<>>)
  /\ \A i \in 1..(IF last.cls \in DOMAIN decl THEN Len(allProps(decl, last.cls)) ELSE 0) :
       LET name == allProps(decl, last.cls)[i][1]
           format == allProps(decl, last.cls)[i][2].format
       IN (format \in Unregistered /\ format # "") =>
            /\ (last.op = "new" /\ HasOwn(last.arg, name)) =>
                 (last.result.ok /\ last.result.v.f[name] = last.arg.f[name])
            /\ (last.op = "asObject" /\ HasOwn(last.before, name)) =>
                 (last.result.ok /\ last.result.v.f[name] = last.before.f[name])

\* new Inherited({kind: 'asdf'}), the format of kind being 'constructor',
\* which nobody registered: find returns a member of Object.prototype and
\* the construction fails with a TypeError.
C19_Witness ==
  /\ last.op = "new" /\ last.cls = "Inherited"
  /\ last.arg = O1("kind", Str("asdf"))
  /\ "constructor" \in Unregistered
  /\ Find(formats, "constructor") # <<>>
  /\ ~last.result.ok /\ last.result.err = "TypeError"
  /\ last.result.traceback = "$.kind"

\* C20: find returns the pair of the latest register call of a name, for a
\* built-in name too, and every construction, setValues and asObject after
\* it converts the values of string properties of that format with that
\* pair, whatever the class.
C20_LastRegistrationWins ==
  /\ last.op = "register" => Find(formats, last.arg.s) = <<last.result.v.s>>
  /\ \A i \in 1..(IF last.cls \in DOMAIN decl THEN Len(allProps(decl, last.cls)) ELSE 0) :
       LET name == allProps(decl, last.cls)[i][1]
           formatter == Find(formats, allProps(decl, last.cls)[i][2].format)
       IN /\ (last.op = "new" /\ last.result.ok /\ HasOwn(last.arg, name)) =>
               last.result.v.f[name]
                 = LoadWith(formatter, LoadWith(formatter, last.arg.f[name]).v).v
          /\ (last.op = "setValues" /\ last.result.ok /\ HasOwn(last.arg, name)) =>
               last.result.v.f[name] = LoadWith(formatter, last.arg.f[name]).v
          /\ (last.op = "asObject" /\ last.result.ok /\ HasOwn(last.before, name)
                /\ last.before.f[name].k \notin {"undefined", "null", "string"}) =>
               last.result.v.f[name] = DumpString(formatter, last.before.f[name]).v

\* A Stamped built while date was the built-in pair is serialized after
\* date was registered again with the date-time pair: validUntil is dumped
\* by toISOString.
C20_Witness ==
  /\ last.op = "asObject" /\ last.cls = "Stamped" /\ last.result.ok
  /\ Find(formats, "date") = <<"date-time">>
  /\ last.before.f["validUntil"] = DateOf("2020-11-10T00:00:00.000Z")
  /\ last.result.v.f["validUntil"] = Str("2020-11-10T00:00:00.000Z")

RECURSIVE MissingIn(_, _, _)
RECURSIVE MissingInProps(_, _, _, _)
RECURSIVE MissingInItems(_, _, _, _)
\* The number of values under the schema that the input leaves out and the
\* schema gives a default producer for; self is the class '#' refers to.
MissingIn(self, schema, raw) ==
  IF raw = Undef
  THEN IF schema.default # <<>> /\ schema.default[1].fn THEN 1 ELSE 0
  ELSE CASE schema.type = "array" /\ raw.k = "array" ->
              MissingInItems(self, schema.items[1], raw.a, 1)
         [] schema.type = "object" /\ raw.k = "object" ->
              MissingInProps(self, schema.properties, raw, 1)
         [] schema.type = "model" /\ raw.k = "object" ->
              MissingInProps(schema.cls, allProps(decl, schema.cls), raw, 1)
         [] schema.type = TypeAbsent /\ schema.ref = "#" /\ raw.k = "object" ->
              MissingInProps(self, allProps(decl, self), raw, 1)
         [] OTHER -> 0

MissingInProps(self, props, raw, i) ==
  IF i > Len(props) THEN 0
  ELSE (IF props[i][2].readOnly THEN 0
        ELSE MissingIn(self, props[i][2], Read(decl, raw, props[i][1])))
       + MissingInProps(self, props, raw, i + 1)

MissingInItems(self, items, a, i) ==
  IF i > Len(a) THEN 0
  ELSE MissingIn(self, items, a[i]) + MissingInItems(self, items, a, i + 1)

\* C21: a construction invokes a default producer once for each value the
\* input leaves out, and for no other value; setValues and asObject invoke
\* none.
C21_ProducerOnlyForMissing ==
  /\ (last.op = "new" /\ last.result.ok) =>
       Len(last.result.log)
         = MissingInProps(last.cls, allProps(decl, last.cls), GivenValues(last.arg), 1)
  /\ (last.op \in {"setValues", "asObject"}) => last.result.log = <<>>

\* A Box built with theAnswer 7 is given setValues({theAnswer: undefined}):
\* the producer is invoked, and theAnswer is 42.
C21_Witness ==
  /\ last.op = "setValues" /\ last.cls = "Box" /\ last.result.ok
  /\ last.arg = O1("theAnswer", Undef)
  /\ last.before.f["theAnswer"] = Num(7)
  /\ last.result.log = <<"$.theAnswer">>
  /\ instance.f["theAnswer"] = Num(42)

\* C22: for a string property whose format has a registered pair, the
\* value a construction or a setValues stores for a supplied value s is
\* load(s), load being applied once.
C22_LoadedOnce ==
  \A i \in 1..(IF last.cls \in DOMAIN decl THEN Len(allProps(decl, last.cls)) ELSE 0) :
    LET name == allProps(decl, last.cls)[i][1]
        format == allProps(decl, last.cls)[i][2].format
    IN (/\ last.op \in {"new", "setValues"} /\ last.result.ok
        /\ format \in DOMAIN formats
        /\ HasOwn(last.arg, name) /\ last.arg.f[name] # Undef) =>
         /\ Load(formats[format], last.arg.f[name]).ok
         /\ last.result.v.f[name] = Load(formats[format], last.arg.f[name]).v

\* new Custom({custom: 'asdf'}) with the custom pair registered: the
\* instance holds a CustomModel of a CustomModel of 'asdf'.
C22_Witness ==
  /\ last.op = "new" /\ last.cls = "Custom" /\ last.result.ok
  /\ Find(formats, "custom") = <<"custom">>
  /\ last.arg = O1("custom", Str("asdf"))
  /\ Load("custom", Str("asdf")) = Ok(Custom(Str("asdf")), <<>>)
  /\ last.result.v.f["custom"] = Custom(Custom(Str("asdf")))

\* C23: for every writable property, whatever its kind, a construction
\* given null for it returns an instance that holds null, and one given no
\* value for a property without default returns an instance that holds
\* undefined; asObject returns null for a null and undefined for an
\* undefined.
C23_NullAndUndefinedKept ==
  \A i \in 1..(IF last.cls \in DOMAIN decl THEN Len(allProps(decl, last.cls)) ELSE 0) :
    LET name == allProps(decl, last.cls)[i][1]
        schema == allProps(decl, last.cls)[i][2]
    IN /\ (last.op = "new" /\ ~schema.readOnly
             /\ Read(decl, GivenValues(last.arg), name) = Null) =>
            (last.result.ok /\ last.result.v.f[name] = Null)
       /\ (last.op = "new" /\ last.result.ok /\ ~schema.readOnly
             /\ schema.default = <<>>
             /\ Read(decl, GivenValues(last.arg), name) = Undef) =>
            last.result.v.f[name] = Undef
       /\ (last.op = "asObject" /\ HasOwn(last.before, name)
             /\ last.before.f[name] \in {Null, Undef}) =>
            (last.result.ok /\ last.result.v.f[name] = last.before.f[name])

\* new Order({user: null}): the instance holds a User built from nothing.
C23_Witness ==
  /\ last.op = "new" /\ last.cls = "Order" /\ last.result.ok
  /\ last.arg = O1("user", Null)
  /\ last.result.v.f["user"].k = "instance"
  /\ last.result.v.f["user"].f["name"] = Str("John")

\* C24: for a string property that holds a value which is no string, null
\* or undefined, asObject returns a string: what the dump of the registered
\* pair of its format returns, or without such a pair the string
\* conversion of the value.
C24_StringEmitted ==
  \A i \in 1..(IF last.cls \in DOMAIN decl THEN Len(allProps(decl, last.cls)) ELSE 0) :
    LET name == allProps(decl, last.cls)[i][1]
        schema == allProps(decl, last.cls)[i][2]
    IN (/\ last.op = "asObject" /\ schema.type = "string"
        /\ HasOwn(last.before, name)
        /\ last.before.f[name].k \notin {"string", "null", "undefined"}) =>
         /\ last.result.ok
         /\ last.result.v.f[name].k = "string"
         /\ last.result.v.f[name]
              = IF schema.format \in DOMAIN formats
                THEN Dump(formats[schema.format], last.before.f[name]).v
                ELSE Str(StringOf(last.before.f[name]))

\* new Coerced({theAnswer: 0}).asObject(): theAnswer is the number 0.
C24_Witness ==
  /\ last.op = "asObject" /\ last.cls = "Coerced" /\ last.result.ok
  /\ last.before.f["theAnswer"] = Num(0)
  /\ last.result.v.f["theAnswer"] = Num(0)

RECURSIVE InputDepth(_)
\* The depth of the objects of a raw value, one inside the other.
InputDepth(v) ==
  CASE v.k = "object" ->
         1 + (IF DOMAIN v.f = {} THEN 0
              ELSE CHOOSE m \in { InputDepth(v.f[n]) : n \in DOMAIN v.f } :
                     \A n \in DOMAIN v.f : InputDepth(v.f[n]) <= m)
    [] v.k = "array" ->
         IF v.a = <<>> THEN 0
         ELSE CHOOSE m \in { InputDepth(v.a[i]) : i \in DOMAIN v.a } :
                \A i \in DOMAIN v.a : InputDepth(v.a[i]) <= m
    [] OTHER -> 0

\* C25: a construction returns or throws without exhausting the stack,
\* whatever the declarations, and nests no more constructor calls than the
\* input nests objects.
C25_NestingBoundedByInput ==
  last.op = "new" =>
    /\ last.result.err # "RangeError"
    /\ last.depth <= InputDepth(GivenValues(last.arg))

\* new Tree({}): children takes its default [{}], each item of which is
\* built as a Tree from {}, without end.
C25_Witness ==
  /\ last.op = "new" /\ last.cls = "Tree" /\ last.arg = EmptyObj
  /\ last.depth > MaxStack
  /\ ~last.result.ok /\ last.result.err = "RangeError"

\* C26: no array, object or instance reachable from a constructed instance
\* is held by the raw input or by a default of the declaration as well.
C26_InstanceOwnsItsValues ==
  (last.op = "new" /\ last.result.ok) => last.shared = {}

\* new Bag({}): meta is the object the declaration gives as default.
C26_Witness ==
  /\ last.op = "new" /\ last.cls = "Bag" /\ last.arg = EmptyObj /\ last.result.ok
  /\ last.result.v.f["meta"] = EmptyObj
  /\ last.shared = {"default"}

\* The base fields of a derived document and the value getSchema gives each.
BaseField(c, key) ==
  CASE key = "$schema" -> Str("http://json-schema.org/schema#")
    [] key = "$id" -> Str(c)
    [] key = "type" -> Str("object")
    [] key = "additionalProperties" -> Bool(FALSE)

IsAny(c) ==
  /\ c \in DOMAIN decl
  /\ allProps(decl, c) = <<>>
  /\ "additionalProperties" \in DOMAIN StaticSchema(decl, c)
  /\ StaticSchema(decl, c)["additionalProperties"] # Bool(FALSE)

\* C28: construction and setValues of an ANY class copy every key of an
\* object input onto the instance unchanged, and asObject of the instance
\* returns exactly its own key/value pairs, also for an ANY instance held by
\* the model-typed property data of another model.
C28_AnyKeepsEveryKey ==
  /\ (last.op \in {"new", "setValues"} /\ IsAny(last.cls) /\ last.arg.k = "object") =>
       /\ last.result.ok
       /\ \A n \in DOMAIN last.arg.f :
            HasOwn(last.result.v, n) /\ last.result.v.f[n] = last.arg.f[n]
  /\ (last.op = "asObject" /\ IsAny(last.cls)) =>
       last.result.ok /\ last.result.v = Obj(last.before.f)
  /\ (last.op = "new" /\ last.cls = "AnyNested" /\ HasOwn(last.arg, "data")) =>
       last.result.ok /\ last.result.v.f["data"] = Inst("Any", last.arg.f["data"].f)
  /\ (last.op = "asObject" /\ last.cls = "AnyNested"
        /\ HasOwn(last.before, "data") /\ last.before.f["data"].k = "instance") =>
       /\ last.result.ok
       /\ last.result.v.f["data"] = Obj(last.before.f["data"].f)

\* An Any built from {constructor: 'Any'} holds the key, and its asObject()
\* throws a TypeError.
C28_Witness ==
  /\ last.op = "asObject" /\ last.cls = "Any"
  /\ last.before.f = O1("constructor", Str("Any")).f
  /\ ~last.result.ok /\ last.result.err = "TypeError"

\* C29: when computing a value throws during setValues(p) (the exception
\* then carries the path of the value), the call fails and the instance
\* holds exactly the properties and values it held before the call; a
\* construction that throws leaves the caller without an instance.
C29_FailureLeavesNoPartialResult ==
  /\ (last.op = "setValues" /\ last.result.traceback # "") =>
       ~last.result.ok /\ last.result.v = last.before /\ instance = last.before
  /\ (last.op = "new" /\ ~last.result.ok) => last.result.v = Undef

\* table.setValues({number: 9, people: 'nobody'}) on a Table whose number
\* is not 9: people cannot be built, and number keeps its value.
C29_Witness ==
  /\ last.op = "setValues" /\ last.cls = "Table"
  /\ last.arg = O2("number", Num(9), "people", Str("nobody"))
  /\ ~last.result.ok /\ last.result.traceback = "$.people"
  /\ Read(decl, last.before, "number") # Num(9)
  /\ instance = last.before

\* The value is an instance of class c.
IsInstanceOf(v, c) == v.k = "instance" /\ v.cls = c

\* Every element of the array is an instance of class c.
AllInstancesOf(v, c) ==
  v.k = "array" /\ \A j \in 1..Len(v.a) : IsInstanceOf(v.a[j], c)

\* C30: unless the nesting exhausts the stack, a construction or setValues
\* of an instance of a class gives every property that refers to '#',
\* directly or as the items of an array, and that the input supplies, an
\* instance of that very class (or an array of them), also when an ancestor
\* declares the property; inside the Admin that a Team holds as lead, the
\* items of roles are instances of Admin.
C30_SelfIsTheClassConstructed ==
  (last.op \in {"new", "setValues"} /\ last.arg.k = "object"
     /\ last.result.err # "RangeError") =>
    /\ \A i \in 1..Len(allProps(decl, last.cls)) :
         LET name == allProps(decl, last.cls)[i][1]
             schema == allProps(decl, last.cls)[i][2]
         IN /\ (schema = Ref("#") /\ HasOwn(last.arg, name)
                  /\ last.arg.f[name].k = "object") =>
                 /\ last.result.ok
                 /\ IsInstanceOf(Read(decl, last.result.v, name), last.cls)
            /\ (schema = ArrayOf(Ref("#")) /\ HasOwn(last.arg, name)
                  /\ last.arg.f[name].k = "array") =>
                 /\ last.result.ok
                 /\ AllInstancesOf(Read(decl, last.result.v, name), last.cls)
    /\ (last.cls = "Team" /\ HasOwn(last.arg, "lead")
          /\ HasOwn(last.arg.f["lead"], "roles")) =>
         /\ last.result.ok
         /\ IsInstanceOf(last.result.v.f["lead"], "Admin")
         /\ AllInstancesOf(last.result.v.f["lead"].f["roles"], "Admin")

\* new Tail({next: {value: 2}}): Tail inherits next: {$ref: '#'} from Node,
\* and the construction throws a TypeError instead of building a Tail.
C30_Witness ==
  /\ last.op = "new" /\ last.cls = "Tail"
  /\ last.arg = O1("next", O1("value", Num(2)))
  /\ ~last.result.ok /\ last.result.err = "TypeError"

====
